---- MODULE Spec2Model ----
(***************************************************************************)
(* A verification model of the Learning-Rust repository.                   *)
(*                                                                         *)
(* The repository is a set of independent lessons; each lesson modelled    *)
(* here has its own group of variables and its own specification:          *)
(*   SpecCacher, SpecCacherFault  functional_lang: Cacher (memoization)    *)
(*   SpecIter                     functional_lang: Counter and the         *)
(*                                zip/skip/map/filter/sum pipeline         *)
(*   SpecShared, SpecSharedFair   concurrency: shared_state_concurrency    *)
(*   SpecMsg, SpecMsgFair         concurrency: message_passing             *)
(*   SpecBt                       concurrency: basic_threading             *)
(*   SpecSearch                   minigrep: search functions               *)
(*   SpecGrep                     minigrep: main, Config::new, run         *)
(*   SpecGuess, SpecRect          adder: Guess, Rectangle                  *)
(*   SpecLoops                    guessing_game, error_handling: main      *)
(*   SpecDrop                     smart_pointers: learning_about_drop      *)
(*   SpecEnum                     enums: plus_one, minus_one               *)
(* An action of one lesson leaves the variables of the others unchanged.   *)
(***************************************************************************)
EXTENDS Integers, Sequences, FiniteSets, TLC

(***************************************************************************)
(* Bounds of the model (not program constants).                            *)
(***************************************************************************)
\* keys handed to Cacher::value are 0..MaxKey (the type U)
MaxKey == 2
\* results of the wrapped function are 0..MaxVal (the type V)
MaxVal == 1
\* number of Cacher::value calls explored on one cache
MaxCalls == 5

\* number of independent Counter values stepped side by side
NumCounters == 2
\* number of next calls explored on one Counter
MaxNext == 7

\* contents handed to search hold at most MaxContentLen characters
MaxContentLen == 4
\* queries handed to search hold at most MaxQueryLen characters
MaxQueryLen == 2
\* the command line of minigrep holds at most MaxArgc strings, program name included
MaxArgc == 4
\* Guess::new is called with the values from 1 - GuessMargin to 100 + GuessMargin
GuessMargin == 3
\* the widths and heights of the Rectangles explored are 0..MaxDim
MaxDim == 2
\* the numbers guessed lie within GuessSpan of the secret number (besides 0,
\* 1, 7 and u32::MAX, which are always tried)
GuessSpan == 3
\* learning_about_drop is explored with at most MaxEarly calls of drop()
MaxEarly == 3
\* plus_one and minus_one are called with the numbers -EnumSpan..EnumSpan
EnumSpan == 6
\* the menu of error_handling is tried with the numbers up to MenuSpan past its last entry
MenuSpan == 2

(***************************************************************************)
(* Program constants.                                                      *)
(***************************************************************************)
\* Counter::next counts while self.count < 5
CounterLimit == 5
\* Counter::new().skip(1)
SkipN == 1
\* shared_state_concurrency: for _ in 0..10
NumWorkers == 10
\* shared_state_concurrency: Mutex::new(5), then *num = 10
MInitial == 5
MAssigned == 10
\* basic_threading: for i in 1..=10 in the spawned thread, 1..=5 in main
SpawnedIters == 10
MainIters == 5
\* guessing_game: let mut range_start = 1; let mut range_end = 100
RangeStart == 1
RangeEnd == 100
\* error_handling: the arms 1 => ... 5 => of match input
MenuFirst == 1
MenuLast == 5
\* Guess::new: value < 1 || value > 100
GuessLow == 1
GuessHigh == 100
\* the largest i32, the type of Guess.value
I32Max == 2147483647

Keys == 0..MaxKey
Values == 0..MaxVal

(***************************************************************************)
(* Option<T> and the outcome of a call.                                    *)
(***************************************************************************)
Some(v) == <<"Some", v>>
None == <<"None">>
\* a call that returned v / a call whose panic unwound into the caller
Returned(v) == <<"Returned", v>>
Panicked == <<"Panicked">>
NoCall == <<"NoCall">>

VARIABLES
  \* ---- functional_lang: Cacher ----
  calculation,   \* Cacher.calculation: the wrapped closure, as its graph
  panics,        \* the keys on which the wrapped closure panics
  value_map,     \* Cacher.value_map: a function whose DOMAIN is the keys stored
  invoked,       \* observer: how often the closure was invoked, per key
  seen,          \* observer: the keys passed to value so far
  arg_,          \* observer: the argument of the latest value call
  arm,           \* observer: the match arm the latest value call took
  ret,           \* observer: what the latest value call gave its caller
  ncalls,        \* observer: number of value calls so far
  \* ---- functional_lang: Counter ----
  count,         \* Counter.count of each independent Counter
  yielded,       \* observer: what each Counter's next calls returned, in order
  \* ---- functional_lang: iterator_trait_methods_on_counter ----
  za,            \* count of the Counter on the left of zip
  zb,            \* count of the Counter inside skip(1)
  skip_n,        \* Skip.n: elements still to be skipped
  zx,            \* Zip::next: the item taken from the left, waiting for the right
  zy,            \* the item taken from the right
  zpc,           \* where the pipeline stands: "a", "b", "map", "done", "panic"
  pairs,         \* observer: the pairs zip has produced, in order
  sum,           \* the accumulator of sum()
  stopped,       \* observer: which side of zip returned None
  \* ---- concurrency: shared_state_concurrency ----
  m_val,         \* the value guarded by the Mutex m
  m_locked,      \* whether m is locked
  cnt_val,       \* the value guarded by the Mutex inside the Arc cnt
  cnt_lock,      \* who holds that Mutex: 0 nobody, 1..NumWorkers a worker, MainId main
  strong,        \* the Arc's strong count
  wpc,           \* where each worker thread stands
  tmp,           \* each worker's value read from *num, before it stores *num + 1
  incs,          \* observer: how often each worker has stored into *num
  handles,       \* the Vec of JoinHandles, as the workers' ids in push order
  joined,        \* how many handles the join loop has consumed
  mainpc,        \* where the main thread stands
  final,         \* the value printed as "Final count"
  \* ---- concurrency: message_passing ----
  mp_main,       \* where the main thread stands in message_passing
  senders,       \* the Sender handles not yet dropped: "tx", "tx1"
  rx_alive,      \* whether the Receiver has not been dropped
  spc,           \* where each sending thread stands
  sidx,          \* each sending thread's position in its vals
  chan,          \* the channel's queue: messages sent and not yet received
  received,      \* observer: the messages the receive loop has printed, in order
  \* ---- minigrep: search, search_case_insensitive ----
  query,         \* the argument query, a sequence of characters
  contents,      \* the argument contents, a sequence of characters
  res_cs,        \* what search returned: None before the call, Some(lines) after
  res_ci,        \* what search_case_insensitive returned, likewise
  \* ---- minigrep: main, Config::new, run ----
  argv,          \* env::args(): the program name and the arguments
  env_var,       \* CASE_INSENSITIVE: "unset", "unicode" (set), "not_unicode" (set)
  readable,      \* the file names fs::read_to_string can read
  file_text,     \* what a readable file holds
  gpc,           \* where main stands: "start", "run", "exited"
  config,        \* the Config built: None, or Some of it
  stdout,        \* the lines printed with println!
  stderr,        \* the lines printed with eprintln!
  exit_code,     \* the process exit status, -1 while main runs
  reads,         \* observer: the file names handed to fs::read_to_string
  used,          \* observer: the search function run called
  \* ---- adder: Guess ----
  g_arg,         \* the argument of the latest Guess::new call
  g_out,         \* what that call gave: NoCall, Returned(a Guess), or a panic
  g_last,        \* the Guess most recently created: None, or Some of it
  \* ---- adder, structs: Rectangle ----
  rect_a,        \* a Rectangle
  rect_b,        \* another Rectangle
  held,          \* what can_hold returned for "ab", "ba", "aa": None before the call
  \* ---- concurrency: basic_threading ----
  bt_pc,         \* where the main thread stands: "spawn1", "print", "sleep", "join1", "spawn2", "join2", "done"
  bt_i,          \* the main thread's loop variable i
  sp1_pc,        \* the first spawned thread: "unspawned", "print", "sleep", "done"
  sp1_i,         \* the first spawned thread's loop variable i
  sp2_pc,        \* the second spawned thread: "unspawned", "print", "done"
  bt_out,        \* the number of lines each thread has printed
  bt_seen,       \* observer: the spawned thread's printed lines when main called join
  \* ---- guessing_game and error_handling: the input loops of main ----
  prog,          \* the program that runs: "guessing_game", "error_handling", or "none"
  range_start,   \* guessing_game: range_start, a u32
  range_end,     \* guessing_game: range_end, a u32
  secret_number, \* guessing_game: secret_number, a u32
  gg_pc,         \* guessing_game: "prompt" (top of the loop), "won" (break), "panicked"
  gg_line,       \* guessing_game: the String guess that read_line filled last
  gg_overflow,   \* observer: a guess + 1 or guess - 1 has left the range of u32
  eh_pc,         \* error_handling: "prompt" (top of the loop), "demo" (break), "panicked"
  eh_line,       \* error_handling: the String input that read_line filled last
  \* ---- smart_pointers: learning_about_drop ----
  dr_early,      \* the locals handed to drop(), in the order of the calls
  dr_pc,         \* "let", "drop", "println", "scope_end", "returned"
  dr_made,       \* the locals created so far, in the order of creation
  dr_live,       \* the locals that still own their value, in the order of creation
  dr_out,        \* the lines printed to stdout
  \* ---- enums: plus_one, minus_one ----
  en_x,          \* the argument, an Option<i32>
  en_plus,       \* what plus_one(x) gave: NoCall, an Option, or a panic
  en_minus,      \* what minus_one(x) gave, likewise
  en_round       \* what minus_one(plus_one(x)) gave, likewise

cacherVars == <<calculation, panics, value_map, invoked, seen, arg_, arm, ret, ncalls>>

iterVars == <<count, yielded, za, zb, skip_n, zx, zy, zpc, pairs, sum, stopped>>

sharedVars == <<m_val, m_locked, cnt_val, cnt_lock, strong, wpc, tmp, incs, handles, joined, mainpc, final>>

msgVars == <<mp_main, senders, rx_alive, spc, sidx, chan, received>>

searchVars == <<query, contents, res_cs, res_ci>>

grepVars == <<argv, env_var, readable, file_text, gpc, config, stdout, stderr, exit_code, reads, used>>

guessVars == <<g_arg, g_out, g_last>>

rectVars == <<rect_a, rect_b, held>>

btVars == <<bt_pc, bt_i, sp1_pc, sp1_i, sp2_pc, bt_out, bt_seen>>

loopVars == <<prog, range_start, range_end, secret_number, gg_pc, gg_line, gg_overflow, eh_pc, eh_line>>

dropVars == <<dr_early, dr_pc, dr_made, dr_live, dr_out>>

enumVars == <<en_x, en_plus, en_minus, en_round>>

vars == <<cacherVars, iterVars, sharedVars, msgVars, searchVars, grepVars, guessVars, rectVars, btVars, loopVars, dropVars, enumVars>>

NotEnum == <<cacherVars, iterVars, sharedVars, msgVars, searchVars, grepVars, guessVars, rectVars, btVars, loopVars, dropVars>>

NotDrop == <<cacherVars, iterVars, sharedVars, msgVars, searchVars, grepVars, guessVars, rectVars, btVars, loopVars, enumVars>>

NotLoops == <<cacherVars, iterVars, sharedVars, msgVars, searchVars, grepVars, guessVars, rectVars, btVars, dropVars, enumVars>>

NotBt == <<cacherVars, iterVars, sharedVars, msgVars, searchVars, grepVars, guessVars, rectVars, loopVars, dropVars, enumVars>>

NotGrep == <<cacherVars, iterVars, sharedVars, msgVars, searchVars, guessVars, rectVars, btVars, loopVars, dropVars, enumVars>>

NotGuess == <<cacherVars, iterVars, sharedVars, msgVars, searchVars, grepVars, rectVars, btVars, loopVars, dropVars, enumVars>>

NotRect == <<cacherVars, iterVars, sharedVars, msgVars, searchVars, grepVars, guessVars, btVars, loopVars, dropVars, enumVars>>

NotCacher == <<iterVars, sharedVars, msgVars, searchVars, grepVars, guessVars, rectVars, btVars, loopVars, dropVars, enumVars>>

NotIter == <<cacherVars, sharedVars, msgVars, searchVars, grepVars, guessVars, rectVars, btVars, loopVars, dropVars, enumVars>>

NotShared == <<cacherVars, iterVars, msgVars, searchVars, grepVars, guessVars, rectVars, btVars, loopVars, dropVars, enumVars>>

NotMsg == <<cacherVars, iterVars, sharedVars, searchVars, grepVars, guessVars, rectVars, btVars, loopVars, dropVars, enumVars>>

NotSearch == <<cacherVars, iterVars, sharedVars, msgVars, grepVars, guessVars, rectVars, btVars, loopVars, dropVars, enumVars>>

Workers == 1..NumWorkers
MainId == NumWorkers + 1

CounterIds == 1..NumCounters

(***************************************************************************)
(* functional_lang/src/main.rs: Cacher                                     *)
(***************************************************************************)
\* HashMap::new()
EmptyMap == [k \in {} |-> 0]

\* a lookup that ignores the key: the cache of a single slot
GetAnyKey(map, arg) == IF DOMAIN map # {} THEN Some(map[CHOOSE k \in DOMAIN map : TRUE]) ELSE None

\* HashMap::get(&arg)
Get(map, arg) == IF arg \in DOMAIN map THEN Some(map[arg]) ELSE None

\* an insert that stores nothing
InsertNothing(map, arg, v) == map

\* an insert that keeps only the newest entry
InsertOnlyNewest(map, arg, v) == [k \in {arg} |-> v]

\* an insert into a map of at most two entries, evicting an older one when full
InsertEvicting(map, arg, v) ==
  IF Cardinality(DOMAIN map) >= 2 /\ arg \notin DOMAIN map
    THEN [k \in (DOMAIN map \ {CHOOSE e \in DOMAIN map : TRUE}) \cup {arg} |->
            IF k = arg THEN v ELSE map[k]]
    ELSE [k \in DOMAIN map \cup {arg} |-> IF k = arg THEN v ELSE map[k]]

\* HashMap::insert(arg, v): adds the entry, or replaces the entry of an equal key
Insert(map, arg, v) == [k \in DOMAIN map \cup {arg} |-> IF k = arg THEN v ELSE map[k]]

\* (self.calculation)(arg): the closure returns its value or panics
Call(arg) == IF arg \in panics THEN Panicked ELSE Returned(calculation[arg])

\* Cacher::new(calculation): the closure is stored and the map is empty
CacherNew(f, p) ==
  /\ calculation = f
  /\ panics = p
  /\ value_map = EmptyMap
  /\ invoked = [k \in Keys |-> 0]
  /\ seen = {}
  /\ arg_ = 0
  /\ arm = "none"
  /\ ret = NoCall
  /\ ncalls = 0

\* a hit arm that calls the closure again and stores the result again
ValueHitRecompute(arg) ==
  /\ Get(value_map, arg) # None
  /\ invoked' = [invoked EXCEPT ![arg] = @ + 1]
  /\ value_map' = Insert(value_map, arg, calculation[arg])
  /\ ret' = Returned(calculation[arg])
  /\ arm' = "hit"

\* Cacher::value(arg), the arm Some(v) => *v
ValueHit(arg) ==
  /\ Get(value_map, arg) # None
  /\ ret' = Returned(Get(value_map, arg)[2])
  /\ arm' = "hit"
  /\ UNCHANGED <<value_map, invoked>>

\* a miss arm that reserves the entry before it calls the closure
ValueMissInsertFirst(arg) ==
  /\ Get(value_map, arg) = None
  /\ invoked' = [invoked EXCEPT ![arg] = @ + 1]
  /\ value_map' = Insert(value_map, arg, calculation[arg])
  /\ IF Call(arg) = Panicked
       THEN ret' = Panicked /\ arm' = "panic"
       ELSE ret' = Returned(Call(arg)[2]) /\ arm' = "miss"

\* Cacher::value(arg), the arm None => { let v = calc(arg); insert(arg, v); v }
\* A panic of the closure unwinds before the insert is reached.
ValueMiss(arg) ==
  /\ Get(value_map, arg) = None
  /\ invoked' = [invoked EXCEPT ![arg] = @ + 1]
  /\ IF Call(arg) = Panicked
       THEN /\ ret' = Panicked
            /\ arm' = "panic"
            /\ UNCHANGED value_map
       ELSE /\ value_map' = Insert(value_map, arg, Call(arg)[2])
            /\ ret' = Returned(Call(arg)[2])
            /\ arm' = "miss"

\* Cacher::value(&mut self, arg)
value(arg) ==
  /\ ncalls < MaxCalls
  /\ ncalls' = ncalls + 1
  /\ arg_' = arg
  /\ seen' = seen \cup {arg}
  /\ (ValueHit(arg) \/ ValueMiss(arg))
  /\ UNCHANGED <<calculation, panics>>
  /\ UNCHANGED NotCacher

NextCacher == \E arg \in Keys : value(arg)

(***************************************************************************)
(* functional_lang/src/main.rs: Counter                                    *)
(***************************************************************************)
\* a next that starts over once the limit is reached
CounterNextRestart(c) ==
  IF c < CounterLimit THEN [count |-> c + 1, item |-> Some(c + 1)]
                      ELSE [count |-> 0, item |-> None]

\* a next that yields the count before the increment
CounterNextOld(c) ==
  IF c < CounterLimit THEN [count |-> c + 1, item |-> Some(c)]
                      ELSE [count |-> c, item |-> None]

\* Counter::next(&mut self) on a Counter whose count is c: the count afterwards
\* and the item returned
CounterNext(c) ==
  IF c < CounterLimit THEN [count |-> c + 1, item |-> Some(c + 1)]
                      ELSE [count |-> c, item |-> None]

\* Counter::new() for every Counter, and the pipeline of the test not yet pulled
IterNew ==
  /\ count = [i \in CounterIds |-> 0]
  /\ yielded = [i \in CounterIds |-> <<>>]
  /\ za = 0
  /\ zb = 0
  /\ skip_n = SkipN
  /\ zx = None
  /\ zy = None
  /\ zpc = "a"
  /\ pairs = <<>>
  /\ sum = 0
  /\ stopped = "none"

\* one call of next on the Counter i
next(i) ==
  /\ Len(yielded[i]) < MaxNext
  /\ count' = [count EXCEPT ![i] = CounterNext(count[i]).count]
  /\ yielded' = [yielded EXCEPT ![i] = Append(@, CounterNext(count[i]).item)]
  /\ UNCHANGED <<za, zb, skip_n, zx, zy, zpc, pairs, sum, stopped>>
  /\ UNCHANGED NotIter

(***************************************************************************)
(* functional_lang/src/main.rs: iterator_trait_methods_on_counter          *)
(* Counter::new().zip(Counter::new().skip(1)).map(..).filter(..).sum()     *)
(***************************************************************************)
\* Iterator::nth(n) on a Counter whose count is c: n items are dropped, the
\* next one is returned; None as soon as the Counter is exhausted
RECURSIVE Nth(_, _)
Nth(c, n) ==
  IF n = 0 THEN CounterNext(c)
  ELSE IF CounterNext(c).item = None THEN CounterNext(c)
  ELSE Nth(CounterNext(c).count, n - 1)

\* a skip that drops nothing
SkipNextNoSkip(c, n) == [count |-> CounterNext(c).count, item |-> CounterNext(c).item, n |-> 0]

\* Skip::next on Skip { iter: Counter { count: c }, n }: the first call drops n
\* items with nth(n) and sets n to 0, later calls are the Counter's next
SkipNext(c, n) ==
  IF n > 0 THEN [count |-> Nth(c, n).count, item |-> Nth(c, n).item, n |-> 0]
           ELSE [count |-> CounterNext(c).count, item |-> CounterNext(c).item, n |-> 0]

\* the closure of map, |(a, b)| 2 * b - a, in u32
MapFn(a, b) == 2 * b - a

\* the closure of filter, |x| x % 2 == 0
FilterFn(x) == x % 2 = 0

\* Zip::next, first half: let x = self.a.next()?
ZipNextA ==
  /\ zpc = "a"
  /\ za' = CounterNext(za).count
  /\ zx' = CounterNext(za).item
  /\ IF CounterNext(za).item = None
       THEN zpc' = "done" /\ stopped' = "a"
       ELSE zpc' = "b" /\ UNCHANGED stopped
  /\ UNCHANGED <<count, yielded, zb, skip_n, zy, pairs, sum>>
  /\ UNCHANGED NotIter

\* Zip::next, second half: let y = self.b.next()?; Some((x, y))
ZipNextB ==
  /\ zpc = "b"
  /\ zb' = SkipNext(zb, skip_n).count
  /\ skip_n' = SkipNext(zb, skip_n).n
  /\ zy' = SkipNext(zb, skip_n).item
  /\ IF SkipNext(zb, skip_n).item = None
       THEN zpc' = "done" /\ stopped' = "b" /\ UNCHANGED pairs
       ELSE /\ zpc' = "map"
            /\ pairs' = Append(pairs, <<zx[2], SkipNext(zb, skip_n).item[2]>>)
            /\ UNCHANGED stopped
  /\ UNCHANGED <<count, yielded, za, zx, sum>>
  /\ UNCHANGED NotIter

\* map, filter and sum applied to the pair zip produced. In u32, 2 * b - a
\* below 0 is an arithmetic overflow, a panic in a test build; a and b are at
\* most CounterLimit, so no product or total comes near u32::MAX.
MapFilterSum ==
  /\ zpc = "map"
  /\ IF MapFn(zx[2], zy[2]) < 0
       THEN zpc' = "panic" /\ UNCHANGED sum
       ELSE IF FilterFn(MapFn(zx[2], zy[2]))
         THEN zpc' = "a" /\ sum' = sum + MapFn(zx[2], zy[2])
         ELSE zpc' = "a" /\ UNCHANGED sum
  /\ UNCHANGED <<count, yielded, za, zb, skip_n, zx, zy, pairs, stopped>>
  /\ UNCHANGED NotIter

NextIter == (\E i \in CounterIds : next(i)) \/ ZipNextA \/ ZipNextB \/ MapFilterSum

(***************************************************************************)
(* concurrency/src/main.rs: shared_state_concurrency                       *)
(***************************************************************************)
\* the locals of shared_state_concurrency before its first statement
SharedNew ==
  /\ m_val = MInitial
  /\ m_locked = FALSE
  /\ cnt_val = 0
  /\ cnt_lock = 0
  /\ strong = 1
  /\ wpc = [w \in Workers |-> "unspawned"]
  /\ tmp = [w \in Workers |-> 0]
  /\ incs = [w \in Workers |-> 0]
  /\ handles = <<>>
  /\ joined = 0
  /\ mainpc = "single"
  /\ final = -1

\* single-threaded case: let mut num = m.lock().unwrap(); *num = 10;
MainSingleLock ==
  /\ mainpc = "single"
  /\ ~m_locked
  /\ m_locked' = TRUE
  /\ m_val' = MAssigned
  /\ mainpc' = "single_end"
  /\ UNCHANGED <<cnt_val, cnt_lock, strong, wpc, tmp, incs, handles, joined, final>>
  /\ UNCHANGED NotShared

\* the end of the inner block drops the MutexGuard: m is released
MainSingleUnlock ==
  /\ mainpc = "single_end"
  /\ m_locked' = FALSE
  /\ mainpc' = "spawn"
  /\ UNCHANGED <<m_val, cnt_val, cnt_lock, strong, wpc, tmp, incs, handles, joined, final>>
  /\ UNCHANGED NotShared

\* one iteration of for _ in 0..10: Arc::clone, thread::spawn, handles.push
MainSpawn ==
  /\ mainpc = "spawn"
  /\ Len(handles) < NumWorkers
  /\ strong' = strong + 1
  /\ wpc' = [wpc EXCEPT ![Len(handles) + 1] = "lock"]
  /\ handles' = Append(handles, Len(handles) + 1)
  /\ mainpc' = IF Len(handles) + 1 = NumWorkers THEN "join" ELSE "spawn"
  /\ UNCHANGED <<m_val, m_locked, cnt_val, cnt_lock, tmp, incs, joined, final>>
  /\ UNCHANGED NotShared

\* a lock that is granted whoever holds the Mutex
WorkerLockNoExclusion(w) ==
  /\ wpc[w] = "lock"
  /\ cnt_lock' = w
  /\ wpc' = [wpc EXCEPT ![w] = "read"]
  /\ UNCHANGED <<m_val, m_locked, cnt_val, strong, tmp, incs, handles, joined, mainpc, final>>
  /\ UNCHANGED NotShared

\* worker: let mut num = cnt.lock().unwrap(); blocks while the Mutex is held.
\* No thread panics while it holds the guard, so the Mutex is never poisoned
\* and unwrap always gets the guard.
WorkerLock(w) ==
  /\ wpc[w] = "lock"
  /\ cnt_lock = 0
  /\ cnt_lock' = w
  /\ wpc' = [wpc EXCEPT ![w] = "read"]
  /\ UNCHANGED <<m_val, m_locked, cnt_val, strong, tmp, incs, handles, joined, mainpc, final>>
  /\ UNCHANGED NotShared

\* worker: *num += 1, the load of *num
WorkerRead(w) ==
  /\ wpc[w] = "read"
  /\ tmp' = [tmp EXCEPT ![w] = cnt_val]
  /\ wpc' = [wpc EXCEPT ![w] = "write"]
  /\ UNCHANGED <<m_val, m_locked, cnt_val, cnt_lock, strong, incs, handles, joined, mainpc, final>>
  /\ UNCHANGED NotShared

\* worker: *num += 1, the store of the loaded value plus 1; the loaded value
\* is a temporary that is dead after the store
WorkerWrite(w) ==
  /\ wpc[w] = "write"
  /\ cnt_val' = tmp[w] + 1
  /\ tmp' = [tmp EXCEPT ![w] = 0]
  /\ incs' = [incs EXCEPT ![w] = @ + 1]
  /\ wpc' = [wpc EXCEPT ![w] = "exit"]
  /\ UNCHANGED <<m_val, m_locked, cnt_lock, strong, handles, joined, mainpc, final>>
  /\ UNCHANGED NotShared

\* a closure end that leaks the guard: the Mutex stays held
WorkerExitKeepLock(w) ==
  /\ wpc[w] = "exit"
  /\ strong' = strong - 1
  /\ wpc' = [wpc EXCEPT ![w] = "done"]
  /\ UNCHANGED <<m_val, m_locked, cnt_val, cnt_lock, tmp, incs, handles, joined, mainpc, final>>
  /\ UNCHANGED NotShared

\* worker: the closure ends, num (the MutexGuard) is dropped and releases the
\* Mutex, the moved Arc clone is dropped, the thread terminates
WorkerExit(w) ==
  /\ wpc[w] = "exit"
  /\ cnt_lock' = IF cnt_lock = w THEN 0 ELSE cnt_lock
  /\ strong' = strong - 1
  /\ wpc' = [wpc EXCEPT ![w] = "done"]
  /\ UNCHANGED <<m_val, m_locked, cnt_val, tmp, incs, handles, joined, mainpc, final>>
  /\ UNCHANGED NotShared

\* one iteration of for handle in handles: handle.join().unwrap() returns once
\* that thread has terminated
MainJoin ==
  /\ mainpc = "join"
  /\ joined < Len(handles)
  /\ wpc[handles[joined + 1]] = "done"
  /\ joined' = joined + 1
  /\ mainpc' = IF joined + 1 = Len(handles) THEN "final" ELSE "join"
  /\ UNCHANGED <<m_val, m_locked, cnt_val, cnt_lock, strong, wpc, tmp, incs, handles, final>>
  /\ UNCHANGED NotShared

\* println!("Final count = {}", *cnt.lock().unwrap()): main takes the Mutex,
\* reads the value and drops the temporary guard at the end of the statement
MainFinal ==
  /\ mainpc = "final"
  /\ cnt_lock = 0
  /\ final' = cnt_val
  /\ mainpc' = "done"
  /\ UNCHANGED <<m_val, m_locked, cnt_val, cnt_lock, strong, wpc, tmp, incs, handles, joined>>
  /\ UNCHANGED NotShared

NextShared ==
  \/ MainSingleLock
  \/ MainSingleUnlock
  \/ MainSpawn
  \/ \E w \in Workers : WorkerLock(w)
  \/ \E w \in Workers : WorkerRead(w)
  \/ \E w \in Workers : WorkerWrite(w)
  \/ \E w \in Workers : WorkerExit(w)
  \/ MainJoin
  \/ MainFinal

\* the steps of the main thread of shared_state_concurrency
SharedMain == MainSingleLock \/ MainSingleUnlock \/ MainSpawn \/ MainJoin \/ MainFinal

\* the steps of the spawned thread w
SharedWorker(w) == WorkerLock(w) \/ WorkerRead(w) \/ WorkerWrite(w) \/ WorkerExit(w)

(***************************************************************************)
(* concurrency/src/main.rs: message_passing                                *)
(***************************************************************************)
\* the two spawned threads: 1 owns the clone tx1, 2 owns the original tx
SenderIds == {1, 2}

\* the Sender handle each thread's closure owns
HandleOf(s) == IF s = 1 THEN "tx1" ELSE "tx"

\* the vals each thread sends, in order
Vals(s) ==
  IF s = 1 THEN <<"---> I", "---> Am", "---> The", "---> CLONE">>
           ELSE <<"Hello!", "World!", "I am the spawned thread">>

\* let (tx, rx) = mpsc::channel(): one Sender, the Receiver, an empty queue
MsgNew ==
  /\ mp_main = "clone"
  /\ senders = {"tx"}
  /\ rx_alive = TRUE
  /\ spc = [s \in SenderIds |-> "unspawned"]
  /\ sidx = [s \in SenderIds |-> 1]
  /\ chan = <<>>
  /\ received = <<>>

\* main: let tx1 = tx.clone()
MsgClone ==
  /\ mp_main = "clone"
  /\ senders' = senders \cup {"tx1"}
  /\ mp_main' = "spawn1"
  /\ UNCHANGED <<rx_alive, spc, sidx, chan, received>>
  /\ UNCHANGED NotMsg

\* main: thread::spawn(move || ...), first the thread of tx1, then the thread
\* of tx; the handle moves into the closure
MsgSpawn(s) ==
  /\ mp_main = (IF s = 1 THEN "spawn1" ELSE "spawn2")
  /\ spc' = [spc EXCEPT ![s] = "send"]
  /\ mp_main' = (IF s = 1 THEN "spawn2" ELSE "recv")
  /\ UNCHANGED <<senders, rx_alive, sidx, chan, received>>
  /\ UNCHANGED NotMsg

\* sender: tx.send(val).unwrap(); send fails, and unwrap panics, only when
\* the Receiver has been dropped; the panic drops the thread's Sender
Send(s) ==
  /\ spc[s] = "send"
  /\ sidx[s] <= Len(Vals(s))
  /\ IF rx_alive
       THEN /\ chan' = Append(chan, [from |-> s, val |-> Vals(s)[sidx[s]]])
            /\ spc' = [spc EXCEPT ![s] = "sleep"]
            /\ UNCHANGED senders
       ELSE /\ spc' = [spc EXCEPT ![s] = "panicked"]
            /\ senders' = senders \ {HandleOf(s)}
            /\ UNCHANGED chan
  /\ UNCHANGED <<mp_main, rx_alive, sidx, received>>
  /\ UNCHANGED NotMsg

\* sender: thread::sleep(Duration::from_secs(1)), then the next val of the loop
Sleep(s) ==
  /\ spc[s] = "sleep"
  /\ sidx' = [sidx EXCEPT ![s] = @ + 1]
  /\ spc' = [spc EXCEPT ![s] = "send"]
  /\ UNCHANGED <<mp_main, senders, rx_alive, chan, received>>
  /\ UNCHANGED NotMsg

\* sender: vals is used up, the closure ends and drops its Sender
SenderExit(s) ==
  /\ spc[s] = "send"
  /\ sidx[s] > Len(Vals(s))
  /\ senders' = senders \ {HandleOf(s)}
  /\ spc' = [spc EXCEPT ![s] = "done"]
  /\ UNCHANGED <<mp_main, rx_alive, sidx, chan, received>>
  /\ UNCHANGED NotMsg

\* a recv that takes the oldest message and loses the one behind it
RecvSkipping ==
  /\ mp_main = "recv"
  /\ chan # <<>>
  /\ received' = Append(received, Head(chan))
  /\ chan' = IF Len(chan) >= 2 THEN Tail(Tail(chan)) ELSE Tail(chan)
  /\ UNCHANGED <<mp_main, senders, rx_alive, spc, sidx>>
  /\ UNCHANGED NotMsg

\* a recv that takes the newest message of the queue
RecvNewestFirst ==
  /\ mp_main = "recv"
  /\ chan # <<>>
  /\ received' = Append(received, chan[Len(chan)])
  /\ chan' = SubSeq(chan, 1, Len(chan) - 1)
  /\ UNCHANGED <<mp_main, senders, rx_alive, spc, sidx>>
  /\ UNCHANGED NotMsg

\* main: for received in rx, one iteration: recv() takes the oldest message
\* of the queue, println! prints it
Recv ==
  /\ mp_main = "recv"
  /\ chan # <<>>
  /\ received' = Append(received, Head(chan))
  /\ chan' = Tail(chan)
  /\ UNCHANGED <<mp_main, senders, rx_alive, spc, sidx>>
  /\ UNCHANGED NotMsg

\* a loop end as soon as the queue is empty
RecvEndWhenEmpty ==
  /\ mp_main = "recv"
  /\ chan = <<>>
  /\ mp_main' = "done"
  /\ rx_alive' = FALSE
  /\ UNCHANGED <<senders, spc, sidx, chan, received>>
  /\ UNCHANGED NotMsg

\* a loop end as soon as one Sender has been dropped
RecvEndOnFirstDrop ==
  /\ mp_main = "recv"
  /\ chan = <<>>
  /\ senders # {"tx", "tx1"}
  /\ mp_main' = "done"
  /\ rx_alive' = FALSE
  /\ UNCHANGED <<senders, spc, sidx, chan, received>>
  /\ UNCHANGED NotMsg

\* main: recv() returns Err once the queue is empty and every Sender has been
\* dropped: the for loop ends, the function returns and drops rx
RecvEnd ==
  /\ mp_main = "recv"
  /\ chan = <<>>
  /\ senders = {}
  /\ mp_main' = "done"
  /\ rx_alive' = FALSE
  /\ UNCHANGED <<senders, spc, sidx, chan, received>>
  /\ UNCHANGED NotMsg

MsgMain == MsgClone \/ (\E s \in SenderIds : MsgSpawn(s)) \/ Recv \/ RecvEnd

MsgSender(s) == Send(s) \/ Sleep(s) \/ SenderExit(s)

NextMsg == MsgMain \/ (\E s \in SenderIds : MsgSender(s))

(***************************************************************************)
(* minigrep/src/lib.rs: search, search_case_insensitive                    *)
(* A string is the sequence of its characters.                             *)
(***************************************************************************)
\* the line feed
NL == "\n"

\* the letters of the texts explored: one cased pair and one other letter
Letters == {"a", "A", "b"}

\* all sequences over S of length at most n
RECURSIVE SeqsUpTo(_, _)
SeqsUpTo(S, n) ==
  IF n = 0 THEN {<<>>}
  ELSE SeqsUpTo(S, n - 1) \cup {Append(w, c) : w \in SeqsUpTo(S, n - 1), c \in S}

\* str::lines() on the characters rest, cur being the line collected so far:
\* a line ends at a line feed; a last line with no line feed counts when it is
\* not empty
RECURSIVE SplitLines(_, _)
SplitLines(rest, cur) ==
  IF rest = <<>> THEN (IF cur = <<>> THEN <<>> ELSE <<cur>>)
  ELSE IF Head(rest) = NL THEN <<cur>> \o SplitLines(Tail(rest), <<>>)
  ELSE SplitLines(Tail(rest), Append(cur, Head(rest)))

\* contents.lines()
Lines(text) == SplitLines(text, <<>>)

\* char::to_lowercase on the letters explored
CharToLower(c) == IF c = "A" THEN "a" ELSE c

\* a to_lowercase that lower-cases the first character only
to_lowercase_first_only(str) == [i \in 1..Len(str) |-> IF i = 1 THEN CharToLower(str[i]) ELSE str[i]]

\* str::to_lowercase()
to_lowercase(str) == [i \in 1..Len(str) |-> CharToLower(str[i])]

\* whether pat stands in str at offset i (0-based)
RECURSIVE MatchesAt(_, _, _, _)
MatchesAt(str, pat, i, j) ==
  IF j > Len(pat) THEN TRUE
  ELSE IF i + j > Len(str) THEN FALSE
  ELSE IF str[i + j] # pat[j] THEN FALSE
  ELSE MatchesAt(str, pat, i, j + 1)

\* str::contains(pat): pat is looked for at every offset, left to right
RECURSIVE ContainsFrom(_, _, _)
ContainsFrom(str, pat, i) ==
  IF i + Len(pat) > Len(str) THEN FALSE
  ELSE IF MatchesAt(str, pat, i, 1) THEN TRUE
  ELSE ContainsFrom(str, pat, i + 1)

\* a contains that looks for pat at the start of the line only
ContainsPrefixOnly(str, pat) == MatchesAt(str, pat, 0, 1)

\* str::contains(pat)
Contains(str, pat) == ContainsFrom(str, pat, 0)

\* .filter(|line| line.contains(query)).collect() over the lines ls
RECURSIVE FilterContains(_, _)
FilterContains(ls, q) ==
  IF ls = <<>> THEN <<>>
  ELSE IF Contains(Head(ls), q) THEN <<Head(ls)>> \o FilterContains(Tail(ls), q)
  ELSE FilterContains(Tail(ls), q)

\* search(query, contents)
search(q, text) == FilterContains(Lines(text), q)

\* the for loop of search_case_insensitive over the lines ls, res being the
\* Vec built so far and q the lower-cased query
RECURSIVE LoopPush(_, _, _)
LoopPush(ls, q, res) ==
  IF ls = <<>> THEN res
  ELSE IF Contains(to_lowercase(Head(ls)), q) THEN LoopPush(Tail(ls), q, Append(res, Head(ls)))
  ELSE LoopPush(Tail(ls), q, res)

\* a search_case_insensitive that lower-cases the lines and not the query
search_case_insensitive_raw_query(q, text) == LoopPush(Lines(text), q, <<>>)

\* search_case_insensitive(query, contents)
search_case_insensitive(q, text) == LoopPush(Lines(text), to_lowercase(q), <<>>)

\* the arguments of one call: any query and any contents within the bounds
SearchNew ==
  /\ query \in SeqsUpTo(Letters, MaxQueryLen)
  /\ contents \in SeqsUpTo(Letters \cup {NL}, MaxContentLen)
  /\ res_cs = None
  /\ res_ci = None

\* the lesson at rest: the query and contents of the test search_returns_1_result
\* are not modelled, the call is not made
SearchIdle ==
  /\ query = <<>>
  /\ contents = <<>>
  /\ res_cs = None
  /\ res_ci = None

\* a call of search on the arguments
CallSearch ==
  /\ res_cs = None
  /\ res_cs' = Some(search(query, contents))
  /\ UNCHANGED <<query, contents, res_ci>>
  /\ UNCHANGED NotSearch

\* a call of search_case_insensitive on the arguments
CallSearchCaseInsensitive ==
  /\ res_ci = None
  /\ res_ci' = Some(search_case_insensitive(query, contents))
  /\ UNCHANGED <<query, contents, res_cs>>
  /\ UNCHANGED NotSearch

NextSearch == CallSearch \/ CallSearchCaseInsensitive

(***************************************************************************)
(* minigrep/src/lib.rs, minigrep/src/main.rs: Config::new, run, main       *)
(***************************************************************************)
\* the strings a command line is made of
ArgWords == {<<"a">>, <<"A">>, <<"b">>}

\* the texts a readable file may hold
Texts == {<<"a", NL, "A", "b", NL, "b">>, <<"A", "a", NL, "b", "a", NL>>}

\* Result values
Ok(v) == <<"Ok", v>>
Err(e) == <<"Err", e>>

\* Iterator::next on the arguments still to come
ArgsNext(it) ==
  IF it = <<>> THEN [item |-> None, rest |-> <<>>]
               ELSE [item |-> Some(Head(it)), rest |-> Tail(it)]

\* env::var("CASE_INSENSITIVE").is_err(): Err when the variable is not set,
\* and also when it is set to a value that is not valid Unicode
EnvVarIsErr(e) == e # "unicode"

\* a Config::new that does not skip the program name
ConfigNewNoSkip(args, e) ==
  LET q == ArgsNext(args)
      f == ArgsNext(q.rest)
  IN IF q.item = None THEN Err("Didn't get a query")
     ELSE IF f.item = None THEN Err("Didn't get a filename")
     ELSE Ok([query |-> q.item[2], fname |-> f.item[2], case_sensitive |-> EnvVarIsErr(e)])

\* a Config::new that takes an empty file name when none is given
ConfigNewDefaultName(args, e) ==
  LET p == ArgsNext(args)
      q == ArgsNext(p.rest)
      f == ArgsNext(q.rest)
  IN IF q.item = None THEN Err("Didn't get a query")
     ELSE Ok([query |-> q.item[2],
              fname |-> (IF f.item = None THEN <<>> ELSE f.item[2]),
              case_sensitive |-> EnvVarIsErr(e)])

\* Config::new(args): the program name is skipped, then the query and the
\* file name are taken; further arguments are not looked at
ConfigNew(args, e) ==
  LET p == ArgsNext(args)
      q == ArgsNext(p.rest)
      f == ArgsNext(q.rest)
  IN IF q.item = None THEN Err("Didn't get a query")
     ELSE IF f.item = None THEN Err("Didn't get a filename")
     ELSE Ok([query |-> q.item[2], fname |-> f.item[2], case_sensitive |-> EnvVarIsErr(e)])

\* fs::read_to_string(fname)
ReadToString(fname) == IF fname \in readable THEN Ok(file_text) ELSE Err("io error")

\* the process as it starts: any command line, environment and file system
GrepNew ==
  /\ argv \in SeqsUpTo(ArgWords, MaxArgc)
  /\ env_var \in {"unset", "unicode", "not_unicode"}
  /\ readable \in SUBSET ArgWords
  /\ file_text \in Texts
  /\ gpc = "start"
  /\ config = None
  /\ stdout = <<>>
  /\ stderr = <<>>
  /\ exit_code = -1
  /\ reads = <<>>
  /\ used = "none"

\* the lesson at rest
GrepIdle ==
  /\ argv = <<>>
  /\ env_var = "unset"
  /\ readable = {}
  /\ file_text = <<>>
  /\ gpc = "start"
  /\ config = None
  /\ stdout = <<>>
  /\ stderr = <<>>
  /\ exit_code = -1
  /\ reads = <<>>
  /\ used = "none"

\* main: Config::new(args).unwrap_or_else(|err| { eprintln!; process::exit(1) })
MainConfig ==
  /\ gpc = "start"
  /\ IF ConfigNew(argv, env_var)[1] = "Ok"
       THEN /\ config' = Some(ConfigNew(argv, env_var)[2])
            /\ gpc' = "run"
            /\ UNCHANGED <<stderr, exit_code>>
       ELSE /\ stderr' = Append(stderr, <<"Argument parsing problem: ", ConfigNew(argv, env_var)[2]>>)
            /\ exit_code' = 1
            /\ gpc' = "exited"
            /\ UNCHANGED config
  /\ UNCHANGED <<argv, env_var, readable, file_text, stdout, reads, used>>
  /\ UNCHANGED NotGrep

\* a run that takes an unreadable file for an empty one
MainRunIgnoringReadError ==
  /\ gpc = "run"
  /\ reads' = Append(reads, config[2].fname)
  /\ used' = IF config[2].case_sensitive THEN "search" ELSE "search_case_insensitive"
  /\ stdout' = LET text == IF ReadToString(config[2].fname)[1] = "Ok"
                             THEN ReadToString(config[2].fname)[2] ELSE <<>>
               IN IF config[2].case_sensitive
                    THEN stdout \o search(config[2].query, text)
                    ELSE stdout \o search_case_insensitive(config[2].query, text)
  /\ exit_code' = 0
  /\ gpc' = "exited"
  /\ UNCHANGED <<argv, env_var, readable, file_text, config, stderr>>
  /\ UNCHANGED NotGrep

\* main: if let Err(e) = run(config) { eprintln!; process::exit(1) }
\* run: read_to_string(config.fname)? returns the error before anything is
\* printed; otherwise the lines found are printed and main returns (status 0)
MainRun ==
  /\ gpc = "run"
  /\ reads' = Append(reads, config[2].fname)
  /\ IF ReadToString(config[2].fname)[1] = "Err"
       THEN /\ stderr' = Append(stderr, <<"Application error: ", ReadToString(config[2].fname)[2]>>)
            /\ exit_code' = 1
            /\ UNCHANGED <<stdout, used>>
       ELSE /\ used' = IF config[2].case_sensitive THEN "search" ELSE "search_case_insensitive"
            /\ stdout' = IF config[2].case_sensitive
                           THEN stdout \o search(config[2].query, ReadToString(config[2].fname)[2])
                           ELSE stdout \o search_case_insensitive(config[2].query, ReadToString(config[2].fname)[2])
            /\ exit_code' = 0
            /\ UNCHANGED stderr
  /\ gpc' = "exited"
  /\ UNCHANGED <<argv, env_var, readable, file_text, config>>
  /\ UNCHANGED NotGrep

NextGrep == MainConfig \/ MainRun

(***************************************************************************)
(* adder/src/lib.rs: Guess                                                 *)
(***************************************************************************)
\* the smallest i32
I32Min == -I32Max - 1

\* the values Guess::new is called with: around both limits, and the extremes
GuessInputs == ((GuessLow - GuessMargin)..(GuessHigh + GuessMargin)) \cup {I32Min, I32Max}

\* panic!("Guess value must be between 1 and 100, got {}.", value)
GuessPanic(v) == <<"Panicked", "Guess value must be between 1 and 100", ", got ", v, ".">>

\* a Guess::new that lets 0 through
GuessNewFromZero(v) ==
  IF v < 0 \/ v > GuessHigh THEN GuessPanic(v) ELSE Returned([value |-> v])

\* Guess::new(value)
GuessNew(v) ==
  IF v < GuessLow \/ v > GuessHigh THEN GuessPanic(v) ELSE Returned([value |-> v])

\* no Guess has been asked for
GuessInit ==
  /\ g_arg = 0
  /\ g_out = NoCall
  /\ g_last = None

\* a call of Guess::new; a panic ends the thread that called
CallGuessNew(v) ==
  /\ g_out[1] # "Panicked"
  /\ g_arg' = v
  /\ g_out' = GuessNew(v)
  /\ g_last' = IF GuessNew(v)[1] = "Returned" THEN Some(GuessNew(v)[2]) ELSE g_last
  /\ UNCHANGED NotGuess

NextGuess == \E v \in GuessInputs : CallGuessNew(v)

(***************************************************************************)
(* adder/src/lib.rs, structs/src/main.rs: Rectangle::can_hold              *)
(***************************************************************************)
Dims == 0..MaxDim

\* a can_hold that accepts equal sides
can_hold_or_equal(self, other) == self.width >= other.width /\ self.height >= other.height

\* Rectangle::can_hold(&self, other)
can_hold(self, other) == self.width > other.width /\ self.height > other.height

\* any two Rectangles
RectNew ==
  /\ rect_a \in [width : Dims, height : Dims]
  /\ rect_b \in [width : Dims, height : Dims]
  /\ held = [c \in {"ab", "ba", "aa"} |-> None]

\* the lesson at rest
RectIdle ==
  /\ rect_a = [width |-> 0, height |-> 0]
  /\ rect_b = [width |-> 0, height |-> 0]
  /\ held = [c \in {"ab", "ba", "aa"} |-> None]

\* a.can_hold(&b)
CallCanHoldAB ==
  /\ held["ab"] = None
  /\ held' = [held EXCEPT !["ab"] = Some(can_hold(rect_a, rect_b))]
  /\ UNCHANGED <<rect_a, rect_b>>
  /\ UNCHANGED NotRect

\* b.can_hold(&a)
CallCanHoldBA ==
  /\ held["ba"] = None
  /\ held' = [held EXCEPT !["ba"] = Some(can_hold(rect_b, rect_a))]
  /\ UNCHANGED <<rect_a, rect_b>>
  /\ UNCHANGED NotRect

\* a.can_hold(&a)
CallCanHoldAA ==
  /\ held["aa"] = None
  /\ held' = [held EXCEPT !["aa"] = Some(can_hold(rect_a, rect_a))]
  /\ UNCHANGED <<rect_a, rect_b>>
  /\ UNCHANGED NotRect

NextRect == CallCanHoldAB \/ CallCanHoldBA \/ CallCanHoldAA

(***************************************************************************)
(* concurrency/src/main.rs: basic_threading                                *)
(***************************************************************************)
\* the locals of basic_threading before its first statement
BtNew ==
  /\ bt_pc = "spawn1"
  /\ bt_i = 1
  /\ sp1_pc = "unspawned"
  /\ sp1_i = 1
  /\ sp2_pc = "unspawned"
  /\ bt_out = [t \in {"main", "sp1", "sp2"} |-> 0]
  /\ bt_seen = -1

\* main: let handle = thread::spawn(|| { for i in 1..=10 ... })
BtSpawn1 ==
  /\ bt_pc = "spawn1"
  /\ sp1_pc' = "print"
  /\ bt_pc' = "print"
  /\ UNCHANGED <<bt_i, sp1_i, sp2_pc, bt_out, bt_seen>>
  /\ UNCHANGED NotBt

\* spawned thread: println!("{} from spawned thread", i)
Sp1Print ==
  /\ sp1_pc = "print"
  /\ bt_out' = [bt_out EXCEPT !["sp1"] = @ + 1]
  /\ sp1_pc' = "sleep"
  /\ UNCHANGED <<bt_pc, bt_i, sp1_i, sp2_pc, bt_seen>>
  /\ UNCHANGED NotBt

\* spawned thread: thread::sleep, then the next i of 1..=10 or the closure's end
Sp1Sleep ==
  /\ sp1_pc = "sleep"
  /\ IF sp1_i < SpawnedIters
       THEN sp1_i' = sp1_i + 1 /\ sp1_pc' = "print"
       ELSE sp1_pc' = "done" /\ UNCHANGED sp1_i
  /\ UNCHANGED <<bt_pc, bt_i, sp2_pc, bt_out, bt_seen>>
  /\ UNCHANGED NotBt

\* main: println!("{} from main thread", i)
BtPrint ==
  /\ bt_pc = "print"
  /\ bt_out' = [bt_out EXCEPT !["main"] = @ + 1]
  /\ bt_pc' = "sleep"
  /\ UNCHANGED <<bt_i, sp1_pc, sp1_i, sp2_pc, bt_seen>>
  /\ UNCHANGED NotBt

\* main: thread::sleep, then the next i of 1..=5 or on to handle.join()
BtSleep ==
  /\ bt_pc = "sleep"
  /\ IF bt_i < MainIters
       THEN bt_i' = bt_i + 1 /\ bt_pc' = "print" /\ UNCHANGED bt_seen
       ELSE bt_pc' = "join1" /\ bt_seen' = bt_out["sp1"] /\ UNCHANGED bt_i
  /\ UNCHANGED <<sp1_pc, sp1_i, sp2_pc, bt_out>>
  /\ UNCHANGED NotBt

\* a join that returns without waiting for the thread
BtJoin1NoWait ==
  /\ bt_pc = "join1"
  /\ bt_pc' = "spawn2"
  /\ UNCHANGED <<bt_i, sp1_pc, sp1_i, sp2_pc, bt_out, bt_seen>>
  /\ UNCHANGED NotBt

\* main: handle.join().unwrap() returns once the first thread has terminated
BtJoin1 ==
  /\ bt_pc = "join1"
  /\ sp1_pc = "done"
  /\ bt_pc' = "spawn2"
  /\ UNCHANGED <<bt_i, sp1_pc, sp1_i, sp2_pc, bt_out, bt_seen>>
  /\ UNCHANGED NotBt

\* main: let handle = thread::spawn(move || { println!(.., v) })
BtSpawn2 ==
  /\ bt_pc = "spawn2"
  /\ sp2_pc' = "print"
  /\ bt_pc' = "join2"
  /\ UNCHANGED <<bt_i, sp1_pc, sp1_i, bt_out, bt_seen>>
  /\ UNCHANGED NotBt

\* second spawned thread: println!("{:?} from spawned thread", v), then its end
Sp2Print ==
  /\ sp2_pc = "print"
  /\ bt_out' = [bt_out EXCEPT !["sp2"] = @ + 1]
  /\ sp2_pc' = "done"
  /\ UNCHANGED <<bt_pc, bt_i, sp1_pc, sp1_i, bt_seen>>
  /\ UNCHANGED NotBt

\* main: the second handle.join().unwrap(), then the function returns
BtJoin2 ==
  /\ bt_pc = "join2"
  /\ sp2_pc = "done"
  /\ bt_pc' = "done"
  /\ UNCHANGED <<bt_i, sp1_pc, sp1_i, sp2_pc, bt_out, bt_seen>>
  /\ UNCHANGED NotBt

NextBt ==
  \/ BtSpawn1
  \/ Sp1Print
  \/ Sp1Sleep
  \/ BtPrint
  \/ BtSleep
  \/ BtJoin1
  \/ BtSpawn2
  \/ Sp2Print
  \/ BtJoin2

(***************************************************************************)
(* u32 values. A u32 is held as two 16-bit halves <<high, low>>, so that   *)
(* every value up to u32::MAX and the checked arithmetic on it are exact.  *)
(***************************************************************************)
Half == 65536

\* the u32 of a number below 2^31
U32Of(n) == <<n \div Half, n % Half>>

\* u32::MAX
U32Max == <<Half - 1, Half - 1>>

\* a < b on u32
U32Lt(a, b) == a[1] < b[1] \/ (a[1] = b[1] /\ a[2] < b[2])

\* a cmp that answers Greater for Less and Less for Greater
U32CmpReversed(a, b) == IF a = b THEN "Equal" ELSE IF U32Lt(a, b) THEN "Greater" ELSE "Less"

\* a.cmp(&b): Ordering::Less, Equal or Greater
U32Cmp(a, b) == IF a = b THEN "Equal" ELSE IF U32Lt(a, b) THEN "Less" ELSE "Greater"

\* a + 1 leaves u32
IncOverflows(a) == a = U32Max

\* a - 1 leaves u32
DecOverflows(a) == a = <<0, 0>>

\* a + 1, wrapping at u32::MAX as a release build does
WrappingInc(a) ==
  IF a[2] = Half - 1 THEN <<(a[1] + 1) % Half, 0>> ELSE <<a[1], a[2] + 1>>

\* a - 1, wrapping at 0 as a release build does
WrappingDec(a) ==
  IF a[2] = 0 THEN <<(a[1] + Half - 1) % Half, Half - 1>> ELSE <<a[1], a[2] - 1>>

(***************************************************************************)
(* Input lines: str::trim and str::parse::<u32>                            *)
(***************************************************************************)
DigitChars == <<"0", "1", "2", "3", "4", "5", "6", "7", "8", "9">>

IsDigit(c) == \E i \in DOMAIN DigitChars : DigitChars[i] = c

DigitVal(c) == (CHOOSE i \in DOMAIN DigitChars : DigitChars[i] = c) - 1

\* char::is_whitespace, on the characters of the lines explored
IsSpace(c) == c \in {" ", NL}

\* the decimal numeral of a number
RECURSIVE DecimalOf(_)
DecimalOf(n) ==
  IF n < 10 THEN <<DigitChars[n + 1]>>
            ELSE Append(DecimalOf(n \div 10), DigitChars[(n % 10) + 1])

RECURSIVE TrimStart(_)
TrimStart(str) ==
  IF str # <<>> /\ IsSpace(Head(str)) THEN TrimStart(Tail(str)) ELSE str

RECURSIVE TrimEnd(_)
TrimEnd(str) ==
  IF str # <<>> /\ IsSpace(str[Len(str)]) THEN TrimEnd(SubSeq(str, 1, Len(str) - 1)) ELSE str

\* str::trim
Trim(str) == TrimEnd(TrimStart(str))

\* the digits of a numeral folded into a u32, most significant first:
\* acc * 10 + digit, with Err as soon as the value leaves u32
RECURSIVE ParseDigits(_, _)
ParseDigits(acc, str) ==
  IF str = <<>> THEN Ok(acc)
  ELSE IF ~IsDigit(Head(str)) THEN Err("InvalidDigit")
  ELSE LET low == acc[2] * 10 + DigitVal(Head(str))
           high == acc[1] * 10 + (low \div Half)
       IN IF high >= Half THEN Err("PosOverflow")
                          ELSE ParseDigits(<<high, low % Half>>, Tail(str))

\* a parse that reads whatever is not a number as 0
ParseU32OrZero(str) ==
  IF str # <<>> /\ ParseDigits(<<0, 0>>, str)[1] = "Ok" THEN ParseDigits(<<0, 0>>, str) ELSE Ok(<<0, 0>>)

\* str::parse::<u32>: an optional "+", then at least one digit, digits only
ParseU32(str) ==
  IF str = <<>> THEN Err("Empty")
  ELSE IF Head(str) = "+" THEN (IF Len(str) = 1 THEN Err("InvalidDigit") ELSE ParseDigits(<<0, 0>>, Tail(str)))
  ELSE IF str = <<"-">> THEN Err("InvalidDigit")
  ELSE ParseDigits(<<0, 0>>, str)

\* lines that are no u32: letters, an empty line, end of input, a negative
\* number, a sign alone, a number above u32::MAX
BadLines ==
  { <<"a", "b", "c", NL>>, <<NL>>, <<>>, <<"-", "5", NL>>, <<"+", NL>>, <<"1", " ", "2", NL>>,
    <<"4", "2", "9", "4", "9", "6", "7", "2", "9", "6", NL>> }

\* lines that are a u32 whatever the state of the program: 0, u32::MAX, a
\* number between blanks, a number with a sign
FixedLines ==
  { <<"0", NL>>, <<"4", "2", "9", "4", "9", "6", "7", "2", "9", "5", NL>>,
    <<" ", "7", " ", NL>>, <<"+", "1", NL>> }

\* the line a user types for the number n
LineOf(n) == Append(DecimalOf(n), NL)

(***************************************************************************)
(* guessing_game/src/main.rs: main                                         *)
(***************************************************************************)
\* the lines tried when the secret number is s
GuessLines(s) ==
  BadLines \cup FixedLines \cup
  {LineOf(n) : n \in {m \in (s[2] - GuessSpan)..(s[2] + GuessSpan) : m >= 0}}

\* let mut range_start = 1; let mut range_end = 100;
\* let secret_number = rand::thread_rng().gen_range(range_start..=range_end)
GuessingNew ==
  /\ range_start = U32Of(RangeStart)
  /\ range_end = U32Of(RangeEnd)
  /\ secret_number \in {U32Of(n) : n \in RangeStart..RangeEnd}
  /\ gg_pc = "prompt"
  /\ gg_line = <<>>
  /\ gg_overflow = FALSE

\* guessing_game is not the program that runs
GuessingIdle ==
  /\ range_start = U32Of(RangeStart)
  /\ range_end = U32Of(RangeEnd)
  /\ secret_number = U32Of(RangeStart)
  /\ gg_pc = "prompt"
  /\ gg_line = <<>>
  /\ gg_overflow = FALSE

\* Ordering::Less => range_start = guess + 1; leaving u32 is a panic in a
\* debug build and wraps in a release build
GuessTooSmall(g) ==
  /\ gg_overflow' = (gg_overflow \/ IncOverflows(g))
  /\ \/ gg_pc' = "prompt" /\ range_start' = WrappingInc(g)
     \/ IncOverflows(g) /\ gg_pc' = "panicked" /\ UNCHANGED range_start
  /\ UNCHANGED range_end

\* Ordering::Greater => range_end = guess - 1, likewise
GuessTooBig(g) ==
  /\ gg_overflow' = (gg_overflow \/ DecOverflows(g))
  /\ \/ gg_pc' = "prompt" /\ range_end' = WrappingDec(g)
     \/ DecOverflows(g) /\ gg_pc' = "panicked" /\ UNCHANGED range_end
  /\ UNCHANGED range_start

\* one iteration of the loop: read_line gives the line, guess.trim().parse()
\* gives Ok(num) or Err(_) => continue, then match guess.cmp(&secret_number)
GuessIteration(line) ==
  /\ prog = "guessing_game"
  /\ gg_pc = "prompt"
  /\ gg_line' = line
  /\ IF ParseU32(Trim(line))[1] = "Err"
       THEN UNCHANGED <<range_start, range_end, gg_pc, gg_overflow>>
       ELSE LET guess == ParseU32(Trim(line))[2] IN
            CASE U32Cmp(guess, secret_number) = "Less" -> GuessTooSmall(guess)
              [] U32Cmp(guess, secret_number) = "Greater" -> GuessTooBig(guess)
              [] U32Cmp(guess, secret_number) = "Equal" ->
                   /\ gg_pc' = "won"
                   /\ UNCHANGED <<range_start, range_end, gg_overflow>>
  /\ UNCHANGED <<prog, secret_number, eh_pc, eh_line>>
  /\ UNCHANGED NotLoops

\* read_line returns Err (the bytes read are not UTF-8, or the read fails):
\* expect("Failed to read line") panics
GuessReadFails ==
  /\ prog = "guessing_game"
  /\ gg_pc = "prompt"
  /\ gg_pc' = "panicked"
  /\ UNCHANGED <<prog, range_start, range_end, secret_number, gg_line, gg_overflow, eh_pc, eh_line>>
  /\ UNCHANGED NotLoops

(***************************************************************************)
(* error_handling/src/main.rs: main                                        *)
(***************************************************************************)
\* the lines tried at the menu
MenuLines == BadLines \cup FixedLines \cup {LineOf(n) : n \in 0..(MenuLast + MenuSpan)}

\* error_handling at the top of its loop
MenuNew ==
  /\ eh_pc = "prompt"
  /\ eh_line = <<>>

\* one iteration of the loop: read_line gives the line, input.trim().parse()
\* gives Ok(num) or Err(_) => continue; 1 to 5 run a demo and break, any other
\* number prints "Unexpected value! Try again" and continues
MenuIteration(line) ==
  /\ prog = "error_handling"
  /\ eh_pc = "prompt"
  /\ eh_line' = line
  /\ IF ParseU32(Trim(line))[1] = "Err"
       THEN UNCHANGED eh_pc
       ELSE LET input == ParseU32(Trim(line))[2] IN
            IF ~U32Lt(input, U32Of(MenuFirst)) /\ ~U32Lt(U32Of(MenuLast), input)
              THEN eh_pc' = "demo"
              ELSE UNCHANGED eh_pc
  /\ UNCHANGED <<prog, range_start, range_end, secret_number, gg_pc, gg_line, gg_overflow>>
  /\ UNCHANGED NotLoops

\* read_line returns Err: expect("Failed to read line") panics
MenuReadFails ==
  /\ prog = "error_handling"
  /\ eh_pc = "prompt"
  /\ eh_pc' = "panicked"
  /\ UNCHANGED <<prog, range_start, range_end, secret_number, gg_pc, gg_line, gg_overflow, eh_line>>
  /\ UNCHANGED NotLoops

\* one of the two programs is started
LoopsNew ==
  /\ prog \in {"guessing_game", "error_handling"}
  /\ IF prog = "guessing_game" THEN GuessingNew ELSE GuessingIdle
  /\ MenuNew

\* neither program runs
LoopsIdle ==
  /\ prog = "none"
  /\ GuessingIdle
  /\ MenuNew

NextLoops ==
  \/ \E line \in GuessLines(secret_number) : GuessIteration(line)
  \/ GuessReadFails
  \/ \E line \in MenuLines : MenuIteration(line)
  \/ MenuReadFails

(***************************************************************************)
(* smart_pointers/src/main.rs: Drop for CustomSP, learning_about_drop      *)
(***************************************************************************)
\* the locals of learning_about_drop, in the order of their let statements
DropLocals == <<"_a", "_b", "_c">>

\* CustomSP { data: String::from(..) } of each local
DataOf(x) == IF x = "_a" THEN "I am a" ELSE IF x = "_b" THEN "I am b" ELSE "I am c"

\* Drop::drop(&mut self): println!("Dropping CustomSP with data `{}`", self.data)
DropLine(x) == <<"Dropping CustomSP with data", DataOf(x)>>

\* println!("CustomSPs created")
CreatedLine == <<"CustomSPs created">>

\* the sequences of distinct locals of length at most n
NoRepeat(n) ==
  {w \in SeqsUpTo({DropLocals[i] : i \in DOMAIN DropLocals}, n) :
     \A i, j \in DOMAIN w : i # j => w[i] # w[j]}

\* the function as written: drop(_b)
DropAsWritten == <<"_b">>

\* the function entered; the locals its drop() calls name are those of the
\* source, or any other choice of at most MaxEarly locals
DropNew ==
  /\ dr_early \in NoRepeat(MaxEarly)
  /\ dr_pc = "let"
  /\ dr_made = <<>>
  /\ dr_live = <<>>
  /\ dr_out = <<>>

\* the lesson at rest
DropIdle ==
  /\ dr_early = DropAsWritten
  /\ dr_pc = "let"
  /\ dr_made = <<>>
  /\ dr_live = <<>>
  /\ dr_out = <<>>

\* let _x = CustomSP { .. }: the next local is created
DropLet ==
  /\ dr_pc = "let"
  /\ dr_made' = Append(dr_made, DropLocals[Len(dr_made) + 1])
  /\ dr_live' = Append(dr_live, DropLocals[Len(dr_made) + 1])
  /\ dr_pc' = IF Len(dr_made) + 1 < Len(DropLocals) THEN "let"
              ELSE IF dr_early # <<>> THEN "drop" ELSE "println"
  /\ UNCHANGED <<dr_early, dr_out>>
  /\ UNCHANGED NotDrop

\* the position of the local x in dr_live
LiveIndex(x) == CHOOSE i \in DOMAIN dr_live : dr_live[i] = x

\* the sequence q without its i-th element
Without(q, i) == SubSeq(q, 1, i - 1) \o SubSeq(q, i + 1, Len(q))

\* the number of drop() calls made so far
EarlyDone == Len(DropLocals) - Len(dr_live)

\* a drop(_x) that runs Drop::drop and leaves the local in scope
DropCallKeepsLocal ==
  /\ dr_pc = "drop"
  /\ dr_out' = Append(dr_out, DropLine(dr_early[Len(dr_out) + 1]))
  /\ dr_pc' = IF Len(dr_out) + 1 < Len(dr_early) THEN "drop" ELSE "println"
  /\ UNCHANGED <<dr_early, dr_made, dr_live>>
  /\ UNCHANGED NotDrop

\* drop(_x): the value moves into std::mem::drop and is dropped there
DropCall ==
  /\ dr_pc = "drop"
  /\ dr_out' = Append(dr_out, DropLine(dr_early[EarlyDone + 1]))
  /\ dr_live' = Without(dr_live, LiveIndex(dr_early[EarlyDone + 1]))
  /\ dr_pc' = IF EarlyDone + 1 < Len(dr_early) THEN "drop" ELSE "println"
  /\ UNCHANGED <<dr_early, dr_made>>
  /\ UNCHANGED NotDrop

\* println!("CustomSPs created")
DropPrintln ==
  /\ dr_pc = "println"
  /\ dr_out' = Append(dr_out, CreatedLine)
  /\ dr_pc' = "scope_end"
  /\ UNCHANGED <<dr_early, dr_made, dr_live>>
  /\ UNCHANGED NotDrop

\* a scope end that drops the locals in the order of their creation
DropScopeEndOldestFirst ==
  /\ dr_pc = "scope_end"
  /\ IF dr_live = <<>>
       THEN dr_pc' = "returned" /\ UNCHANGED <<dr_live, dr_out>>
       ELSE /\ dr_out' = Append(dr_out, DropLine(Head(dr_live)))
            /\ dr_live' = Tail(dr_live)
            /\ UNCHANGED dr_pc
  /\ UNCHANGED <<dr_early, dr_made>>
  /\ UNCHANGED NotDrop

\* the closing brace: the locals that still own a value are dropped, the one
\* declared last first; with none left the function returns
DropScopeEnd ==
  /\ dr_pc = "scope_end"
  /\ IF dr_live = <<>>
       THEN dr_pc' = "returned" /\ UNCHANGED <<dr_live, dr_out>>
       ELSE /\ dr_out' = Append(dr_out, DropLine(dr_live[Len(dr_live)]))
            /\ dr_live' = SubSeq(dr_live, 1, Len(dr_live) - 1)
            /\ UNCHANGED dr_pc
  /\ UNCHANGED <<dr_early, dr_made>>
  /\ UNCHANGED NotDrop

NextDrop == DropLet \/ DropCall \/ DropPrintln \/ DropScopeEnd

(***************************************************************************)
(* enums/src/main.rs: plus_one, minus_one                                  *)
(***************************************************************************)
\* the arguments explored: None, the numbers around 0, and both ends of i32
EnumInputs ==
  {None} \cup {Some(i) : i \in ((-EnumSpan)..EnumSpan) \cup {I32Min, I32Max}}

\* i + 1 leaves i32
AddOverflows(i) == i = I32Max

\* i + 1 in i32, wrapping at i32::MAX as a release build does
AddOne(i) == IF i = I32Max THEN I32Min ELSE i + 1

\* plus_one(x): None => None, Some(i) => Some(i + 1)
plus_one(x) == IF x = None THEN None ELSE Some(AddOne(x[2]))

\* minus_one(x): Some(i) => Some(i + 1), _ => None
minus_one(x) == IF x[1] = "Some" THEN Some(AddOne(x[2])) ELSE None

\* the outcomes of plus_one(x): its value, or where i + 1 leaves i32 a panic
\* (debug build) or the wrapped value (release build)
OutcomesPlus(x) ==
  IF x[1] = "Some" /\ AddOverflows(x[2]) THEN {Panicked, plus_one(x)} ELSE {plus_one(x)}

\* the outcomes of minus_one(x), likewise
OutcomesMinus(x) ==
  IF x[1] = "Some" /\ AddOverflows(x[2]) THEN {Panicked, minus_one(x)} ELSE {minus_one(x)}

\* the outcomes of minus_one(plus_one(x))
OutcomesRound(x) ==
  UNION {IF p = Panicked THEN {Panicked} ELSE OutcomesMinus(p) : p \in OutcomesPlus(x)}

\* any argument, no call made yet
EnumNew ==
  /\ en_x \in EnumInputs
  /\ en_plus = NoCall
  /\ en_minus = NoCall
  /\ en_round = NoCall

\* the lesson at rest: let y: Option<i32> = Some(5)
EnumIdle ==
  /\ en_x = Some(5)
  /\ en_plus = NoCall
  /\ en_minus = NoCall
  /\ en_round = NoCall

\* let plus_one = plus_one(y)
CallPlusOne ==
  /\ en_plus = NoCall
  /\ en_plus' \in OutcomesPlus(en_x)
  /\ UNCHANGED <<en_x, en_minus, en_round>>
  /\ UNCHANGED NotEnum

\* let minus_one = minus_one(y)
CallMinusOne ==
  /\ en_minus = NoCall
  /\ en_minus' \in OutcomesMinus(en_x)
  /\ UNCHANGED <<en_x, en_plus, en_round>>
  /\ UNCHANGED NotEnum

\* minus_one(plus_one(y))
CallMinusOneOfPlusOne ==
  /\ en_round = NoCall
  /\ en_round' \in OutcomesRound(en_x)
  /\ UNCHANGED <<en_x, en_plus, en_minus>>
  /\ UNCHANGED NotEnum

NextEnum == CallPlusOne \/ CallMinusOne \/ CallMinusOneOfPlusOne

(***************************************************************************)
(* Specifications: one lesson runs, the others stay as constructed.        *)
(***************************************************************************)
\* the Cacher of a lesson that is not running
CacherIdle == CacherNew([k \in Keys |-> 0], {})

\* a cache built on a closure that returns for every key
InitCacher == (\E f \in [Keys -> Values] : CacherNew(f, {})) /\ IterNew /\ SharedNew /\ MsgNew /\ SearchIdle /\ GrepIdle /\ GuessInit /\ RectIdle /\ BtNew /\ LoopsIdle /\ DropIdle /\ EnumIdle

\* a cache built on a closure that may panic on some keys
InitCacherFault ==
  (\E f \in [Keys -> Values] : \E p \in SUBSET Keys : CacherNew(f, p)) /\ IterNew /\ SharedNew /\ MsgNew /\ SearchIdle /\ GrepIdle /\ GuessInit /\ RectIdle /\ BtNew /\ LoopsIdle /\ DropIdle /\ EnumIdle

SpecCacher == InitCacher /\ [][NextCacher]_vars

SpecCacherFault == InitCacherFault /\ [][NextCacher]_vars

InitIter == IterNew /\ CacherIdle /\ SharedNew /\ MsgNew /\ SearchIdle /\ GrepIdle /\ GuessInit /\ RectIdle /\ BtNew /\ LoopsIdle /\ DropIdle /\ EnumIdle

SpecIter == InitIter /\ [][NextIter]_vars

InitShared == SharedNew /\ CacherIdle /\ IterNew /\ MsgNew /\ SearchIdle /\ GrepIdle /\ GuessInit /\ RectIdle /\ BtNew /\ LoopsIdle /\ DropIdle /\ EnumIdle

SpecShared == InitShared /\ [][NextShared]_vars

\* every thread the operating system runs keeps taking steps while it can;
\* std's Mutex promises no fairness among the threads that wait for it
SpecSharedFair ==
  /\ SpecShared
  /\ WF_vars(SharedMain)
  /\ \A w \in Workers : WF_vars(SharedWorker(w))

InitMsg == MsgNew /\ CacherIdle /\ IterNew /\ SharedNew /\ SearchIdle /\ GrepIdle /\ GuessInit /\ RectIdle /\ BtNew /\ LoopsIdle /\ DropIdle /\ EnumIdle

SpecMsg == InitMsg /\ [][NextMsg]_vars

\* every thread the operating system runs keeps taking steps while it can
SpecMsgFair ==
  /\ SpecMsg
  /\ WF_vars(MsgMain)
  /\ \A s \in SenderIds : WF_vars(MsgSender(s))

InitSearch == SearchNew /\ CacherIdle /\ IterNew /\ SharedNew /\ MsgNew /\ GrepIdle /\ GuessInit /\ RectIdle /\ BtNew /\ LoopsIdle /\ DropIdle /\ EnumIdle

SpecSearch == InitSearch /\ [][NextSearch]_vars

InitGrep == GrepNew /\ CacherIdle /\ IterNew /\ SharedNew /\ MsgNew /\ SearchIdle /\ GuessInit /\ RectIdle /\ BtNew /\ LoopsIdle /\ DropIdle /\ EnumIdle

SpecGrep == InitGrep /\ [][NextGrep]_vars

InitGuess == GuessInit /\ CacherIdle /\ IterNew /\ SharedNew /\ MsgNew /\ SearchIdle /\ GrepIdle /\ RectIdle /\ BtNew /\ LoopsIdle /\ DropIdle /\ EnumIdle

SpecGuess == InitGuess /\ [][NextGuess]_vars

InitRect == RectNew /\ CacherIdle /\ IterNew /\ SharedNew /\ MsgNew /\ SearchIdle /\ GrepIdle /\ GuessInit /\ BtNew /\ LoopsIdle /\ DropIdle /\ EnumIdle

SpecRect == InitRect /\ [][NextRect]_vars

InitBt == BtNew /\ IterNew /\ CacherIdle /\ SharedNew /\ MsgNew /\ SearchIdle /\ GrepIdle /\ GuessInit /\ RectIdle /\ LoopsIdle /\ DropIdle /\ EnumIdle

SpecBt == InitBt /\ [][NextBt]_vars

InitLoops == LoopsNew /\ IterNew /\ CacherIdle /\ SharedNew /\ MsgNew /\ SearchIdle /\ GrepIdle /\ GuessInit /\ RectIdle /\ BtNew /\ DropIdle /\ EnumIdle

SpecLoops == InitLoops /\ [][NextLoops]_vars

InitDrop == DropNew /\ IterNew /\ CacherIdle /\ SharedNew /\ MsgNew /\ SearchIdle /\ GrepIdle /\ GuessInit /\ RectIdle /\ BtNew /\ LoopsIdle /\ EnumIdle

SpecDrop == InitDrop /\ [][NextDrop]_vars

InitEnum == EnumNew /\ IterNew /\ CacherIdle /\ SharedNew /\ MsgNew /\ SearchIdle /\ GrepIdle /\ GuessInit /\ RectIdle /\ BtNew /\ LoopsIdle /\ DropIdle

SpecEnum == InitEnum /\ [][NextEnum]_vars

(***************************************************************************)
(* Claims about Cacher                                                     *)
(***************************************************************************)
RECURSIVE SumOver(_, _)
SumOver(f, S) == IF S = {} THEN 0 ELSE LET k == CHOOSE x \in S : TRUE IN f[k] + SumOver(f, S \ {k})

\* a value call has just been made (the step of the action value)
ValueStep == ncalls' = ncalls + 1

\* C1: after any sequence of value calls the closure has been invoked as many
\* times as there are distinct keys passed so far: once for every key passed,
\* never for a key not passed, never twice for the same key.
C1_InvokedOncePerDistinctKey ==
  /\ SumOver(invoked, Keys) = Cardinality(seen)
  /\ \A k \in Keys : invoked[k] = (IF k \in seen THEN 1 ELSE 0)

\* C1 witness: several calls, some repeating a key, over at least two distinct keys.
C1_Witness == ncalls > Cardinality(seen) /\ Cardinality(seen) >= 2 /\ ncalls >= 4

\* C2: every value(k) that returns gives f(k), whatever was queried before;
\* so repeated calls agree and a second key gets its own result.
C2_ReturnsFOfKey == ret[1] = "Returned" => ret = Returned(calculation[arg_])

\* C2 witness: a hit on k while another key with a different result is cached.
C2_Witness ==
  /\ arm = "hit"
  /\ \E k \in DOMAIN value_map : k # arg_ /\ value_map[k] # ret[2]

\* C3: a value call with a key already in the map returns the stored result,
\* does not invoke the closure and leaves the map as it was.
C3_HitFrame ==
  [][(ValueStep /\ arg_' \in DOMAIN value_map) =>
       /\ ret' = Returned(value_map[arg_'])
       /\ invoked' = invoked
       /\ value_map' = value_map]_vars

\* C3 witness: the latest call took the hit arm.
C3_Witness == arm = "hit" /\ ret = Returned(value_map[arg_])

\* C4: a value call with a key not in the map invokes the closure once, returns
\* f(k), and the map afterwards is the map before plus the entry k -> f(k).
C4_MissFrame ==
  [][(ValueStep /\ arg_' \notin DOMAIN value_map) =>
       /\ ret' = Returned(calculation[arg_'])
       /\ invoked' = [invoked EXCEPT ![arg_'] = @ + 1]
       /\ DOMAIN value_map' = DOMAIN value_map \cup {arg_'}
       /\ value_map'[arg_'] = calculation[arg_']
       /\ \A k \in DOMAIN value_map : value_map'[k] = value_map[k]]_vars

\* C4 witness: a miss that added an entry to a map that already held one.
C4_Witness == arm = "miss" /\ Cardinality(DOMAIN value_map) >= 2

\* C5: the map starts empty, its keys are exactly the keys value was called
\* with, and an entry once stored is never removed or overwritten.
C5_MapOnlyGrows ==
  /\ DOMAIN value_map = {}
  /\ [](DOMAIN value_map = seen)
  /\ [][\A k \in DOMAIN value_map :
          k \in DOMAIN value_map' /\ value_map'[k] = value_map[k]]_vars

\* C5 witness: every key has an entry and calls went on after the map was full.
C5_Witness == DOMAIN value_map = Keys /\ ncalls > Cardinality(Keys)

\* C6: when the closure panics on a missing key, nothing is stored, the map is
\* unchanged and the caller gets the panic instead of a value.
C6_PanicStoresNothing ==
  [][(ValueStep /\ arg_' \notin DOMAIN value_map /\ arg_' \in panics) =>
       /\ value_map' = value_map
       /\ ret' = Panicked]_vars

\* C6 witness: a call panicked on a cache that already holds entries.
C6_Witness == arm = "panic" /\ ret = Panicked /\ value_map # EmptyMap /\ arg_ \notin DOMAIN value_map

(***************************************************************************)
(* Claims about Counter and the iterator pipeline                          *)
(***************************************************************************)
\* C7: from Counter::new() the calls of next return Some(1), Some(2), Some(3),
\* Some(4), Some(5) in this order, the count being the value just returned,
\* and the 6th call returns None.
C7_FirstFiveThenNone ==
  \A i \in CounterIds :
    /\ \A j \in 1..Len(yielded[i]) :
         yielded[i][j] = (IF j <= 5 THEN Some(j) ELSE None)
    /\ count[i] = (IF Len(yielded[i]) <= 5 THEN Len(yielded[i]) ELSE 5)

\* C7 witness: a Counter on which next was called 6 times.
C7_Witness == \E i \in CounterIds : Len(yielded[i]) = 6 /\ yielded[i][5] = Some(5) /\ yielded[i][6] = None

\* C8: once the count is 5, every further next returns None and leaves the
\* count at 5: the Counter never yields again and never restarts.
C8_ExhaustedStays ==
  [][\A i \in CounterIds :
       count[i] = 5 =>
         /\ count'[i] = 5
         /\ yielded'[i] # yielded[i] => yielded'[i] = Append(yielded[i], None)]_vars

\* C8 witness: a Counter that returned None twice after its five values.
C8_Witness ==
  \E i \in CounterIds :
    /\ count[i] = 5
    /\ Len(yielded[i]) >= 7
    /\ yielded[i][6] = None /\ yielded[i][7] = None

\* C9: the pipeline ends with the sum 10, after exactly the 4 pairs (1,2),
\* (2,3), (3,4), (4,5), and it ends because the skipped side is exhausted.
C9_PipelineSumIsTen ==
  /\ zpc # "panic"
  /\ zpc = "done" =>
       /\ sum = 10
       /\ Len(pairs) = 4
       /\ pairs = <<<<1, 2>>, <<2, 3>>, <<3, 4>>, <<4, 5>>>>
       /\ stopped = "b"

\* C9 witness: the pipeline has run to its end.
C9_Witness == zpc = "done" /\ Len(pairs) = 4 /\ zy = None

(***************************************************************************)
(* Claims about shared_state_concurrency                                   *)
(***************************************************************************)
\* C10: under every interleaving, the counter read after all workers have been
\* joined is 10; every worker increments it exactly once and no increment is
\* lost: the counter always equals the number of increments made so far.
C10_FinalCountIsTen ==
  /\ \A w \in Workers : incs[w] = (IF wpc[w] \in {"exit", "done"} THEN 1 ELSE 0)
  /\ cnt_val = SumOver(incs, Workers)
  /\ mainpc = "done" =>
       /\ joined = 10
       /\ \A w \in Workers : wpc[w] = "done" /\ incs[w] = 1
       /\ final = 10

\* C10 witness: main has joined the 10 workers and read the counter.
C10_Witness == mainpc = "done" /\ joined = 10 /\ final = cnt_val /\ Len(handles) = 10

(***************************************************************************)
(* Claims about message_passing                                            *)
(***************************************************************************)
\* C11: the receive loop ends only when both Sender handles, tx and tx1, have
\* been dropped, which is after both sending threads have finished; it never
\* ends while a handle is alive, and once both are dropped it does end.
C11_LoopEndsOnlyWhenAllSendersDropped ==
  /\ [](mp_main = "done" => senders = {} /\ \A s \in SenderIds : spc[s] = "done")
  /\ [][mp_main' = "done" /\ mp_main # "done" => senders = {}]_vars
  /\ (senders = {} ~> mp_main = "done")

\* C11 witness: the loop has ended, after one thread finished well before the
\* other (its handle was dropped while the loop went on receiving).
C11_Witness == mp_main = "done" /\ senders = {} /\ Len(received) = 7 /\ received[7].from = 2 /\ received[6].from = 2

(***************************************************************************)
(* Claims about minigrep                                                   *)
(***************************************************************************)
\* q stands in line at some offset, character for character
HasSubstring(line, q) ==
  \E i \in 0..(Len(line) - Len(q)) : \A j \in 1..Len(q) : line[i + j] = q[j]

\* two characters that are equal or differ only in letter case
SameLetter(c, d) == c = d \/ {c, d} = {"a", "A"}

\* q stands in line at some offset up to letter case
HasSubstringAnyCase(line, q) ==
  \E i \in 0..(Len(line) - Len(q)) : \A j \in 1..Len(q) : SameLetter(line[i + j], q[j])

\* res is exactly the lines of ls whose index is in M, each once, in order
IsSelection(res, ls, M) ==
  /\ Len(res) = Cardinality(M)
  /\ \A i \in M : res[Cardinality({k \in M : k <= i})] = ls[i]

\* C12: search returns exactly the lines of contents that contain query as a
\* case-sensitive substring, each once and in their original order.
C12_SearchReturnsMatchingLines ==
  res_cs # None =>
    IsSelection(res_cs[2], Lines(contents),
                {i \in 1..Len(Lines(contents)) : HasSubstring(Lines(contents)[i], query)})

\* C12 witness: three lines of which exactly one contains the query, returned.
C12_Witness ==
  /\ res_cs # None
  /\ Len(Lines(contents)) = 3
  /\ query # <<>>
  /\ Len(res_cs[2]) = 1
  /\ res_cs[2][1] = Lines(contents)[3]

\* C13: search_case_insensitive returns exactly the lines of contents that
\* contain query up to letter case (the lower-cased line contains the
\* lower-cased query), in original order and in their original form.
C13_SearchCaseInsensitiveReturnsMatchingLines ==
  res_ci # None =>
    IsSelection(res_ci[2], Lines(contents),
                {i \in 1..Len(Lines(contents)) : HasSubstringAnyCase(Lines(contents)[i], query)})

\* C13 witness: a line returned in its original form that matches the query
\* only up to letter case, while another line is left out.
C13_Witness ==
  /\ res_ci # None
  /\ Len(Lines(contents)) >= 2
  /\ Len(res_ci[2]) = 1
  /\ ~HasSubstring(res_ci[2][1], query)
  /\ \E c \in {"A"} : \E j \in 1..Len(res_ci[2][1]) : res_ci[2][1][j] = c

\* C14: with fewer than two arguments after the program name Config::new
\* returns the error "Didn't get a query" (no query) or "Didn't get a
\* filename" (query only) and no Config; main reports it, exits with a
\* non-zero status, and run is never called: no file is read, nothing printed.
C14_MissingArgumentsFail ==
  (Len(argv) < 3) =>
    /\ ConfigNew(argv, env_var) =
         Err(IF Len(argv) < 2 THEN "Didn't get a query" ELSE "Didn't get a filename")
    /\ config = None
    /\ gpc # "run"
    /\ reads = <<>> /\ used = "none" /\ stdout = <<>>
    /\ gpc = "exited" =>
         /\ exit_code # 0 /\ exit_code = 1
         /\ stderr = <<<<"Argument parsing problem: ",
                         IF Len(argv) < 2 THEN "Didn't get a query" ELSE "Didn't get a filename">>>>

\* C14 witness: main has exited on a command line that holds the program name
\* and a query only, although the query names a readable file.
C14_Witness ==
  /\ gpc = "exited"
  /\ Len(argv) = 2
  /\ argv[2] \in readable
  /\ stderr = <<<<"Argument parsing problem: ", "Didn't get a filename">>>>

\* C15: with the program name and at least two arguments Config::new
\* succeeds, query is the first argument after the program name and fname the
\* second; the program name is skipped.
C15_ConfigTakesQueryAndFname ==
  (Len(argv) >= 3) =>
    /\ ConfigNew(argv, env_var)[1] = "Ok"
    /\ ConfigNew(argv, env_var)[2].query = argv[2]
    /\ ConfigNew(argv, env_var)[2].fname = argv[3]
    /\ gpc # "start" => config = Some(ConfigNew(argv, env_var)[2]) /\ stderr \in {<<>>, <<<<"Application error: ", "io error">>>>}

\* C15 witness: a Config built from a command line of four strings whose
\* program name differs from the query and the file name.
C15_Witness ==
  /\ config # None
  /\ Len(argv) = 4
  /\ argv[1] # argv[2] /\ argv[1] # argv[3] /\ argv[2] # argv[3]
  /\ config[2].query = argv[2] /\ config[2].fname = argv[3]

\* C16: when the file named in the Config cannot be read, run returns the
\* error before any line is printed, main reports it on standard error and
\* exits with a non-zero status.
C16_UnreadableFileFails ==
  (gpc = "exited" /\ config # None /\ config[2].fname \notin readable) =>
    /\ stdout = <<>>
    /\ used = "none"
    /\ reads = <<config[2].fname>>
    /\ stderr = <<<<"Application error: ", "io error">>>>
    /\ exit_code # 0 /\ exit_code = 1

\* C16 witness: main has exited after run failed on a missing file while the
\* query does name a readable file.
C16_Witness ==
  /\ gpc = "exited"
  /\ config # None
  /\ config[2].fname \notin readable
  /\ config[2].query \in readable
  /\ exit_code = 1

\* C17: case_sensitive is decided in Config::new and is true exactly when the
\* environment variable CASE_INSENSITIVE is not set; run calls search when it
\* is true and search_case_insensitive otherwise.
C17_CaseSensitiveIffUnset ==
  config # None =>
    /\ config[2].case_sensitive = (env_var = "unset")
    /\ used # "none" =>
         used = (IF config[2].case_sensitive THEN "search" ELSE "search_case_insensitive")

(***************************************************************************)
(* Claims about Guess and Rectangle                                        *)
(***************************************************************************)
\* C18: Guess::new(value) panics with the message "Guess value must be between
\* 1 and 100" exactly when value < 1 or value > 100; for a value in 1..=100 it
\* returns a Guess holding that value, so every Guess holds a value in 1..=100.
C18_GuessInRange ==
  /\ g_out # NoCall =>
       /\ (g_out[1] = "Panicked") = (g_arg < 1 \/ g_arg > 100)
       /\ g_out[1] = "Panicked" => g_out[2] = "Guess value must be between 1 and 100"
       /\ g_arg \in 1..100 => g_out = Returned([value |-> g_arg]) /\ g_last = Some([value |-> g_arg])
  /\ g_last # None => g_last[2].value \in 1..100

\* C18 witness: a Guess of 100 exists and the call with 101 has panicked.
C18_Witness ==
  /\ g_last = Some([value |-> 100])
  /\ g_arg = 101
  /\ g_out[1] = "Panicked"

\* C19: can_hold is a strict containment test: a.can_hold(b) exactly when a is
\* wider and higher than b; if a can hold b then b cannot hold a, and no
\* rectangle can hold itself.
C19_CanHoldIsStrict ==
  /\ held["ab"] # None =>
       held["ab"] = Some(rect_a.width > rect_b.width /\ rect_a.height > rect_b.height)
  /\ held["ba"] # None =>
       held["ba"] = Some(rect_b.width > rect_a.width /\ rect_b.height > rect_a.height)
  /\ (held["ab"] = Some(TRUE) /\ held["ba"] # None) => held["ba"] = Some(FALSE)
  /\ held["aa"] # None => held["aa"] = Some(FALSE)

\* C19 witness: a holds b, b was found not to hold a, a not to hold itself.
C19_Witness ==
  /\ held["ab"] = Some(TRUE)
  /\ held["ba"] = Some(FALSE)
  /\ held["aa"] = Some(FALSE)

\* C20: at most one thread holds the counter's lock at any time: no two
\* workers are between the acquisition of the lock and the end of their
\* increment together, and the value a worker loaded is still the counter's
\* value when it stores.
C20_MutualExclusion ==
  /\ Cardinality({w \in Workers : wpc[w] \in {"read", "write", "exit"}}) <= 1
  /\ \A w \in Workers : wpc[w] \in {"read", "write", "exit"} => cnt_lock = w
  /\ \A w \in Workers : wpc[w] = "write" => tmp[w] = cnt_val

\* C20 witness: a worker is about to store while others wait for the lock and
\* others have finished.
C20_Witness ==
  \E w \in Workers :
    /\ wpc[w] = "write"
    /\ Cardinality({v \in Workers : wpc[v] = "lock"}) >= 2
    /\ Cardinality({v \in Workers : wpc[v] = "done"}) >= 2

(***************************************************************************)
(* Claims about shared_state_concurrency: termination                      *)
(***************************************************************************)
\* C21: a worker that holds the lock releases it when its closure ends, so
\* under fair scheduling each of the 10 workers eventually acquires the lock,
\* increments and terminates, every join returns, and main's final read of
\* the counter acquires the lock: there is no deadlock.
C21_EveryWorkerTerminates ==
  /\ [][\A w \in Workers :
         /\ (wpc[w] = "exit" /\ wpc'[w] = "done") => (cnt_lock = w /\ cnt_lock' = 0)
         /\ (incs'[w] # incs[w]) => (cnt_lock = w /\ incs[w] = 0 /\ incs'[w] = 1)]_vars
  /\ <>[](/\ \A w \in Workers : wpc[w] = "done" /\ incs[w] = 1
          /\ joined = NumWorkers
          /\ mainpc = "done"
          /\ final # -1
          /\ cnt_lock = 0)

\* C21 witness: the last worker has released the lock and terminated while
\* main still waits in its first join.
C21_Witness ==
  /\ \A w \in Workers : wpc[w] = "done"
  /\ cnt_lock = 0
  /\ mainpc = "join"
  /\ joined = 0

(***************************************************************************)
(* Claims about message_passing: delivery and order                        *)
(***************************************************************************)
\* the number of vals the thread s has passed to send so far
SentBy(s) == IF spc[s] = "sleep" THEN sidx[s] ELSE sidx[s] - 1

\* how many times the i-th val of the thread s occurs in the sequence q
Occurrences(q, s, i) ==
  Cardinality({j \in DOMAIN q : q[j] = [from |-> s, val |-> Vals(s)[i]]})

\* C22: under every interleaving the receiver gets each of the 7 strings (4
\* of the clone's thread, 3 of the original transmitter's thread) exactly once
\* before the receive loop ends: every string sent is in the queue or received,
\* once; none is lost, none is delivered twice, and the loop does end.
C22_EachMessageExactlyOnce ==
  /\ [](\A s \in SenderIds : \A i \in DOMAIN Vals(s) :
          /\ Occurrences(received \o chan, s, i) = (IF i <= SentBy(s) THEN 1 ELSE 0)
          /\ Occurrences(received, s, i) <= 1)
  /\ [](mp_main = "done" =>
          /\ Len(received) = 7
          /\ \A i \in 1..4 : Occurrences(received, 1, i) = 1
          /\ \A i \in 1..3 : Occurrences(received, 2, i) = 1)
  /\ <>(mp_main = "done")

\* C22 witness: the loop has ended with the 7 strings received, those of the
\* two threads alternating.
C22_Witness ==
  /\ mp_main = "done"
  /\ Len(received) = 7
  /\ \A j \in 1..6 : received[j].from = (IF j % 2 = 1 THEN 1 ELSE 2)

\* the messages of the thread s among those received, in the order received
ReceivedFrom(s) == SelectSeq(received, LAMBDA m : m.from = s)

\* C23: the messages of each sending thread are received in the order that
\* thread sent them, under every interleaving; the order between messages of
\* different threads is not fixed.
C23_PerSenderOrder ==
  \A s \in SenderIds :
    /\ Len(ReceivedFrom(s)) <= Len(Vals(s))
    /\ \A i \in DOMAIN ReceivedFrom(s) : ReceivedFrom(s)[i].val = Vals(s)[i]

\* C23 witness: all 7 received, with the thread spawned second received
\* first and the first val of the other thread received last but three.
C23_Witness ==
  /\ Len(received) = 7
  /\ received[1].from = 2
  /\ received[2].from = 2
  /\ received[3].from = 2
  /\ received[4] = [from |-> 1, val |-> "---> I"]

C25_JoinWaitsForThread ==
  /\ bt_pc \in {"spawn2", "join2", "done"} =>
       (sp1_pc = "done" /\ bt_out["sp1"] = 10 /\ bt_out["main"] = 5)
  /\ sp2_pc # "unspawned" => (bt_pc \in {"join2", "done"} /\ sp1_pc = "done")
  /\ bt_pc = "done" => (sp2_pc = "done" /\ bt_out["sp2"] = 1)

\* C25 witness: the function has returned, and main had reached its join
\* when the spawned thread had printed 3 of its 10 lines.
C25_Witness == bt_pc = "done" /\ bt_seen = 3

(***************************************************************************)
(* Claims about the input loops of guessing_game and error_handling        *)
(***************************************************************************)
\* the line spells the number n: its decimal numeral, alone, between blanks,
\* or after a plus sign, then the end of the line
Spells(line, n) ==
  line \in {LineOf(n), <<" ">> \o DecimalOf(n) \o <<" ", NL>>, <<"+">> \o LineOf(n)}

C27_SecretStaysInRange ==
  prog = "guessing_game" =>
    /\ ~U32Lt(secret_number, range_start)
    /\ ~U32Lt(range_end, secret_number)
    /\ ~gg_overflow

\* C27 witness: after guesses of u32::MAX and of 0, range_end is
\* u32::MAX - 1 and range_start is back at 1, below where it had been.
C27_Witness ==
  /\ prog = "guessing_game"
  /\ gg_line = <<"0", NL>>
  /\ range_start = U32Of(1)
  /\ range_end = <<65535, 65534>>
  /\ secret_number = U32Of(100)

(***************************************************************************)
(* Claims about learning_about_drop                                        *)
(***************************************************************************)
\* the position of the line l in dr_out, 0 when it was not printed
PrintedAt(l) == IF \E i \in DOMAIN dr_out : dr_out[i] = l
                  THEN CHOOSE i \in DOMAIN dr_out : dr_out[i] = l ELSE 0

\* how many times the drop of the local x was printed
DropCount(x) == Cardinality({i \in DOMAIN dr_out : dr_out[i] = DropLine(x)})

\* the local x was created before the local y
CreatedBefore(x, y) ==
  \E i, j \in DOMAIN DropLocals : i < j /\ DropLocals[i] = x /\ DropLocals[j] = y

\* C28: values are dropped in the reverse order of their creation, except a
\* value dropped early with drop(): in learning_about_drop the drop line of
\* _b is printed before "CustomSPs created", then at the scope end _c is
\* dropped before _a, and the drop of each value runs exactly once.
C28_ReverseDropOrder ==
  /\ \A i \in DOMAIN DropLocals : DropCount(DropLocals[i]) <= 1
  /\ dr_pc = "returned" =>
       /\ \A i \in DOMAIN DropLocals : DropCount(DropLocals[i]) = 1
       /\ \A i \in DOMAIN dr_early : PrintedAt(DropLine(dr_early[i])) < PrintedAt(CreatedLine)
       /\ \A i, j \in DOMAIN DropLocals :
            (/\ CreatedBefore(DropLocals[i], DropLocals[j])
             /\ PrintedAt(DropLine(DropLocals[i])) > PrintedAt(CreatedLine)
             /\ PrintedAt(DropLine(DropLocals[j])) > PrintedAt(CreatedLine))
            => PrintedAt(DropLine(DropLocals[j])) < PrintedAt(DropLine(DropLocals[i]))
  /\ (dr_pc = "returned" /\ dr_early = DropAsWritten) =>
       dr_out = <<DropLine("_b"), CreatedLine, DropLine("_c"), DropLine("_a")>>

\* C28 witness: the function as written has returned, with _b dropped early.
C28_Witness ==
  /\ dr_pc = "returned"
  /\ dr_early = <<"_b">>
  /\ Len(dr_out) = 4
  /\ dr_out[1] = DropLine("_b")

(***************************************************************************)
(* Claims about plus_one and minus_one                                     *)
(***************************************************************************)
\* the argument is Some(i) with i - 1, i, i + 1 and i + 2 all in i32
PresentInside == en_x[1] = "Some" /\ en_x[2] > I32Min /\ en_x[2] < I32Max - 1

\* C29: minus_one is the inverse of plus_one on present values:
\* plus_one(Some(i)) is Some(i + 1), minus_one(Some(i)) is Some(i - 1), both
\* give None for None, and minus_one(plus_one(Some(i))) is Some(i).
C29_MinusOneInvertsPlusOne ==
  /\ en_x = None => (en_plus \in {NoCall, None} /\ en_minus \in {NoCall, None})
  /\ PresentInside =>
       /\ en_plus \in {NoCall, Some(en_x[2] + 1)}
       /\ en_minus \in {NoCall, Some(en_x[2] - 1)}
       /\ en_round \in {NoCall, Some(en_x[2])}

(***************************************************************************)
(* Claims relating search and search_case_insensitive                      *)
(***************************************************************************)
\* the lines of a are found in b, in the same relative order
RECURSIVE IsSubsequence(_, _)
IsSubsequence(a, b) ==
  IF a = <<>> THEN TRUE
  ELSE IF b = <<>> THEN FALSE
  ELSE IF Head(a) = Head(b) THEN IsSubsequence(Tail(a), Tail(b))
  ELSE IsSubsequence(a, Tail(b))

\* no upper-case letter stands in str
AllLowerCase(str) == \A i \in DOMAIN str : str[i] # "A"

\* C30: for every query and contents over ASCII letters, every line returned
\* by search is also returned by search_case_insensitive, in the same relative
\* order; when query and contents are all lower case the two return the same
\* list.
C30_SearchWithinCaseInsensitive ==
  (res_cs # None /\ res_ci # None) =>
    /\ IsSubsequence(res_cs[2], res_ci[2])
    /\ (AllLowerCase(query) /\ AllLowerCase(contents)) => res_cs[2] = res_ci[2]

\* C30 witness: both were called on a query with an upper-case letter; search
\* returned one line, search_case_insensitive that line and another before it.
C30_Witness ==
  /\ res_cs # None
  /\ res_ci # None
  /\ ~AllLowerCase(query)
  /\ Len(res_cs[2]) = 1
  /\ Len(res_ci[2]) = 2
  /\ res_ci[2][2] = res_cs[2][1]
  /\ res_ci[2][1] # res_cs[2][1]

====
